---- MODULE Spec2Model ----
(***************************************************************************)
(* Retry executor with exponential backoff (komandakycto/decogen).         *)
(*                                                                         *)
(*   pkg/backoff/backoff.go           BackOff.Delay and its mutex          *)
(*   pkg/decorators/retry/errors.go   Do, DoWithValue, WithTimeout,       *)
(*                                    doRetry and the error taxonomy       *)
(*   internal/generator/templates/retry.go.tmpl                            *)
(*                                    the generated retry decorator        *)
(*                                                                         *)
(* Two specifications share the module:                                    *)
(*   SpecBackoff  goroutines calling Delay concurrently on one policy      *)
(*   Spec         one invocation of Do / DoWithValue / WithTimeout racing  *)
(*                its context                                              *)
(***************************************************************************)
EXTENDS Integers, Sequences, FiniteSets, TLC

VARIABLES
    \* ---- pkg/backoff: one BackOff value shared by the callers
    b,          \* the policy: minDelay, maxDelay, factor, jitter
    mu,         \* holder of b.mu, or "free"
    dpc,        \* per goroutine: position inside Delay
    dprev,      \* per goroutine: the argument `previous` of the call
    ddelay,     \* per goroutine: the local `delay`
    drnd,       \* per goroutine: the numerator of the value drawn from b.rnd
    \* ---- pkg/decorators/retry: one invocation of Do / DoWithValue
    fn,         \* entry point: "Do", "DoWithValue" or "WithTimeout"
    callerCfg,  \* the Config value the caller passed (by value)
    config,     \* the callee's copy of the Config
    ctxErr,     \* ctx.Err(): "nil", "Canceled" or "DeadlineExceeded"
    pc,         \* position of the invocation
    attempt,    \* doRetry's attempt counter
    delay,      \* doRetry's running delay
    err,        \* error returned by the latest operation invocation
    lastErr,    \* the closure's captured lastErr
    result,     \* DoWithValue's captured result
    loopErr,    \* what doRetry returned
    ret,        \* what Do / DoWithValue returned: [val, err]
    timers,     \* time.After timers started and not yet fired
    timeout,    \* WithTimeout's timeout argument (0 for the other entry points)
    tctx,       \* the per-attempt context of WithTimeout's wrappedOp
    \* ---- history of the invocation (observers, not program state)
    opLog,      \* outcome of every operation invocation, in order
    retryLog,   \* arguments of every OnRetry call, in order
    delayLog,   \* argument of every Backoff.Delay call, in order
    waitLog,    \* [delay, by] of every wait: by = "timer" or "ctx"
    recLog,     \* argument of every IsRecoverable call, in order
    minDelayCalls, \* number of Backoff.MinDelay calls
    ctxAtEntry, \* ctx.Err() when Do / DoWithValue was entered
    firedAt,    \* pc at which the context fired, "entry" if before, "never"
    opsAtFire,  \* operation invocations begun before the context fired
    lateOps,    \* operation invocations begun after the context had fired
    tctxAtReturn, \* the per-attempt context when the latest invocation returned
    \* ---- the operation of the invocation, and further observers
    opErrs,     \* the errors the operation of this invocation can return
    logLog,     \* lines written by the logger of WithLogging, in order
    delayRets,  \* value returned by every Backoff.Delay call, in order
    runs,       \* invocations the caller has made with its Config value
    baseCfg,    \* the Config value the caller built, before any enhancer
    \* ---- an error value under construction (the error taxonomy alone)
    xcause,     \* the error it started from, then the cause last marked
    xerr,       \* the error built so far
    xmarked,    \* whether NewUnrecoverableError was applied on the way
    xlayers,    \* the wrapping layers applied so far, innermost first
    \* ---- a decorator generated from retry.go.tmpl, one method call
    deco,       \* the decorator: [maxAttempts], as the constructor stored it
    ctxParam,   \* ctxParam.Err(): "nil", "Canceled" or "DeadlineExceeded"
    mpc,        \* position of the method call
    mAttempt,   \* the method's local `attempt` (uint8)
    wait,       \* the method's local `wait`
    mErr,       \* error returned by the latest call of the underlying method
    mRet,       \* the error the method returned
    calls,      \* observer: calls of the underlying method begun so far
    mFiredAt,   \* observer: mpc at which ctxParam fired, "never" if it has not
    callsAtFire \* observer: calls begun before ctxParam fired

bvars == <<b, mu, dpc, dprev, ddelay, drnd>>
rvars == <<fn, callerCfg, config, ctxErr, pc, attempt, delay, err, lastErr,
           result, loopErr, ret, timers>>
hvars == <<opLog, retryLog, delayLog, waitLog, recLog, minDelayCalls,
           ctxAtEntry, firedAt, opsAtFire, lateOps>>
tvars == <<timeout, tctx, tctxAtReturn>>
evars == <<opErrs, logLog, delayRets, runs, baseCfg>>
xvars == <<xcause, xerr, xmarked, xlayers>>
gvars == <<deco, ctxParam, mpc, mAttempt, wait, mErr, mRet, calls, mFiredAt,
           callsAtFire>>
vars == <<bvars, rvars, hvars, tvars, evars, xvars, gvars>>

---------------------------------------------------------------------------
(* time.Duration is an int64.  The model keeps the two's-complement width  *)
(* but scales it down to DurBits bits.                                     *)
DurBits == 7
MaxInt64 == 2^(DurBits - 1) - 1
MinInt64 == -(2^(DurBits - 1))

\* int64 addition wraps around
WrapInt64(x) == ((x - MinInt64) % 2^DurBits) + MinInt64

\* rounding toward zero, as a float-to-integer conversion rounds (den > 0)
TruncDiv(num, den) ==
    IF num >= 0 THEN num \div den ELSE -((-num) \div den)

\* time.Duration(f) for the float64 f = num/den.  A value the int64 cannot
\* represent converts to an implementation-dependent result: the sign-bit
\* pattern (amd64) or the saturated bound (arm64).
ToDuration(num, den) ==
    LET t == TruncDiv(num, den) IN
    IF t >= MinInt64 /\ t <= MaxInt64 THEN {t}
    ELSE {MinInt64, IF t > 0 THEN MaxInt64 ELSE MinInt64}

\* rnd.Float64() draws from [0, 1): the model draws r / RndDen, r < RndDen
RndDen == 4
Draws == 0 .. (RndDen - 1)

\* float64 fields are rationals <<numerator, denominator>>
Factors == {<<0, 1>>, <<1, 2>>, <<1, 1>>, <<2, 1>>, <<1000, 1>>}
Jitters == {<<0, 1>>, <<1, 2>>, <<2, 1>>, <<1000, 1>>}
DelayPairs == {<<0, 8>>, <<2, 2>>, <<2, 20>>, <<5, 3>>}
PrevInputs == {-3, 0, 1, 3, 9, MaxInt64}
Goroutines == {"g1", "g2"}

\* backoff.New: no validation of its arguments
New(minDelay, maxDelay, factor, jitter) ==
    [minDelay |-> minDelay, maxDelay |-> maxDelay,
     factor |-> factor, jitter |-> jitter]

Policies ==
    {New(p[1], p[2], f, j) : p \in DelayPairs, f \in Factors, j \in Jitters}

\* Delay, lines 104-114: floor previous at minDelay, grow, cap at maxDelay
Grow(p, previous) ==
    LET prev == IF previous < p.minDelay THEN p.minDelay ELSE previous
    IN {IF d > p.maxDelay THEN p.maxDelay ELSE d :
            d \in ToDuration(prev * p.factor[1], p.factor[2])}

\* Delay, lines 119-123: jitterFactor = (draw - 0.5) * jitter, applied as a
\* fraction of the capped delay
JitterAmount(p, d, r) ==
    ToDuration(d * (2 * r - RndDen) * p.jitter[1], 2 * RndDen * p.jitter[2])

\* (variant: the clamp after jitter guards the floor only)
FinishMutNoUpper(p, d, ja) ==
    LET s == WrapInt64(d + ja) IN IF s < p.minDelay THEN p.minDelay ELSE s

\* (variant: the clamp after jitter guards the cap only)
FinishMutNoLower(p, d, ja) ==
    LET s == WrapInt64(d + ja) IN IF s > p.maxDelay THEN p.maxDelay ELSE s

\* Delay, lines 124-133: add the jitter, then clamp into [minDelay, maxDelay]
Finish(p, d, ja) ==
    LET s == WrapInt64(d + ja) IN
    IF s < p.minDelay THEN p.minDelay
    ELSE IF s > p.maxDelay THEN p.maxDelay
    ELSE s

\* every value one call Delay(previous) can return
DelayOutcomes(p, previous) ==
    UNION {UNION {{Finish(p, d, ja) : ja \in JitterAmount(p, d, r)} : r \in Draws}
           : d \in Grow(p, previous)}

---------------------------------------------------------------------------
(* SpecBackoff: goroutines inside BackOff.Delay                            *)

BackoffInit ==
    /\ b \in Policies
    /\ mu = "free"
    /\ dpc = [g \in Goroutines |-> "idle"]
    /\ dprev = [g \in Goroutines |-> 0]
    /\ ddelay = [g \in Goroutines |-> 0]
    /\ drnd = [g \in Goroutines |-> 0]

\* lines 102-114: the call, up to the cap before jitter
DelayCall(g) ==
    /\ dpc[g] = "idle"
    /\ \E previous \in PrevInputs :
          \E d \in Grow(b, previous) :
             /\ dprev' = [dprev EXCEPT ![g] = previous]
             /\ ddelay' = [ddelay EXCEPT ![g] = d]
    /\ dpc' = [dpc EXCEPT ![g] = "lock"]
    /\ drnd' = [drnd EXCEPT ![g] = 0]
    /\ UNCHANGED <<b, mu, rvars, hvars>>
    /\ UNCHANGED tvars
    /\ UNCHANGED <<evars, xvars, gvars>>

\* (variant: Lock does not wait for the holder)
DelayLockMutNoWait(g) ==
    /\ dpc[g] = "lock"
    /\ mu' = g
    /\ dpc' = [dpc EXCEPT ![g] = "draw"]
    /\ UNCHANGED <<b, dprev, ddelay, drnd, rvars, hvars>>
    /\ UNCHANGED tvars
    /\ UNCHANGED <<evars, xvars, gvars>>

\* line 117: b.mu.Lock()
DelayLock(g) ==
    /\ dpc[g] = "lock"
    /\ mu = "free"
    /\ mu' = g
    /\ dpc' = [dpc EXCEPT ![g] = "draw"]
    /\ UNCHANGED <<b, dprev, ddelay, drnd, rvars, hvars>>
    /\ UNCHANGED tvars
    /\ UNCHANGED <<evars, xvars, gvars>>

\* line 119: b.rnd.Float64()
DelayDraw(g) ==
    /\ dpc[g] = "draw"
    /\ \E r \in Draws : drnd' = [drnd EXCEPT ![g] = r]
    /\ dpc' = [dpc EXCEPT ![g] = "unlock"]
    /\ UNCHANGED <<b, mu, dprev, ddelay, rvars, hvars>>
    /\ UNCHANGED tvars
    /\ UNCHANGED <<evars, xvars, gvars>>

\* line 120: b.mu.Unlock()
DelayUnlock(g) ==
    /\ dpc[g] = "unlock"
    /\ mu' = "free"
    /\ dpc' = [dpc EXCEPT ![g] = "jitter"]
    /\ UNCHANGED <<b, dprev, ddelay, drnd, rvars, hvars>>
    /\ UNCHANGED tvars
    /\ UNCHANGED <<evars, xvars, gvars>>

\* lines 123-133: jitter arithmetic, final clamp, return
DelayReturn(g) ==
    /\ dpc[g] = "jitter"
    /\ \E ja \in JitterAmount(b, ddelay[g], drnd[g]) :
          ddelay' = [ddelay EXCEPT ![g] = Finish(b, ddelay[g], ja)]
    /\ dpc' = [dpc EXCEPT ![g] = "ret"]
    /\ UNCHANGED <<b, mu, dprev, drnd, rvars, hvars>>
    /\ UNCHANGED tvars
    /\ UNCHANGED <<evars, xvars, gvars>>

\* the caller takes the result; the goroutine may call again
DelayDone(g) ==
    /\ dpc[g] = "ret"
    /\ dpc' = [dpc EXCEPT ![g] = "idle"]
    /\ dprev' = [dprev EXCEPT ![g] = 0]
    /\ ddelay' = [ddelay EXCEPT ![g] = 0]
    /\ drnd' = [drnd EXCEPT ![g] = 0]
    /\ UNCHANGED <<b, mu, rvars, hvars>>
    /\ UNCHANGED tvars
    /\ UNCHANGED <<evars, xvars, gvars>>

---------------------------------------------------------------------------
(* Errors.  A Go error value is a tree: its dynamic type or identity (tag), *)
(* the errors its Unwrap method yields (subs), and its Error() text as the  *)
(* sequence of the pieces it is built from.                                 *)

NilErr == [tag |-> "nil", subs |-> <<>>, text |-> <<>>]

\* errors.New(msg): a leaf with its own identity
ErrorsNew(msg) == [tag |-> msg, subs |-> <<>>, text |-> <<msg>>]

Canceled == ErrorsNew("context canceled")
DeadlineExceeded == ErrorsNew("context deadline exceeded")
\* errors.go line 11
ErrAllAttemptsFailed == ErrorsNew("all retry attempts failed")
\* validateConfig line 489
ErrBackoffRequired == ErrorsNew("backoff strategy is required")

\* WithTimeout line 61: fmt.Errorf without a verb
ErrTimeoutInvalid == ErrorsNew("timeout must be greater than zero")

\* fmt.Errorf("wrap: %w", e)
Wrapf(e) ==
    [tag |-> "*fmt.wrapError", subs |-> <<e>>, text |-> <<"wrap">> \o e.text]

\* fmt.Errorf("%w: %w", a, c): both operands stay in the chain
ErrorfWW(a, c) ==
    [tag |-> "*fmt.wrapErrors", subs |-> <<a, c>>, text |-> a.text \o c.text]

\* fmt.Errorf("%w: %v", a, c): c is formatted into the text only
ErrorfWV(a, c) ==
    [tag |-> "*fmt.wrapError", subs |-> <<a>>, text |-> a.text \o c.text]

\* NewUnrecoverableError, lines 20-25, with Error() and Unwrap(), lines 28-38
\* (variant: the nil cause is marked like any other)
NewUnrecoverableErrorMutNoNilCheck(e) ==
    [tag |-> "*UnrecoverableError", subs |-> <<e>>,
     text |-> <<"unrecoverable">> \o e.text]

NewUnrecoverableError(e) ==
    IF e = NilErr THEN NilErr
    ELSE [tag |-> "*UnrecoverableError", subs |-> <<e>>,
          text |-> <<"unrecoverable">> \o e.text]

\* errors.Is(e, target): depth-first search of the chain for the target
RECURSIVE Is(_, _)
Is(e, target) ==
    /\ e # NilErr
    /\ \/ e = target
       \/ \E i \in DOMAIN e.subs : Is(e.subs[i], target)

\* (variant: only the error itself is examined, not its chain)
IsUnrecoverableErrorMutTopOnly(e) ==
    /\ e # NilErr
    /\ e.tag = "*UnrecoverableError"

\* IsUnrecoverableError, lines 41-44: errors.As for *UnrecoverableError
RECURSIVE IsUnrecoverableError(_)
IsUnrecoverableError(e) ==
    /\ e # NilErr
    /\ \/ e.tag = "*UnrecoverableError"
       \/ \E i \in DOMAIN e.subs : IsUnrecoverableError(e.subs[i])

\* errors.Unwrap: the result of the error's Unwrap() error method, nil for an
\* error without one (fmt's two-operand wrapper has Unwrap() []error)
Unwrap(e) ==
    IF e.tag \in {"*UnrecoverableError", "*fmt.wrapError"} THEN e.subs[1]
    ELSE NilErr

\* ctx.Err()
CtxErr(c) ==
    IF c = "nil" THEN NilErr
    ELSE IF c = "Canceled" THEN Canceled
    ELSE DeadlineExceeded

\* (variant: the unrecoverable marker is not consulted)
DefaultRecoverableMutNoMarker(e) ==
    /\ e # NilErr
    /\ ~Is(e, Canceled)
    /\ ~Is(e, DeadlineExceeded)

\* defaultRecoverable, lines 559-566
DefaultRecoverable(e) ==
    /\ e # NilErr
    /\ ~Is(e, Canceled)
    /\ ~Is(e, DeadlineExceeded)
    /\ ~IsUnrecoverableError(e)

\* config.IsRecoverable(err): the default, or a caller's override.  The
\* overrides stand for predicates that ignore the markers: one retries every
\* error, one retries none.
\* an error of the test type temporaryTestError: it has a Temporary()
\* method answering isTemp, and no Unwrap
TemporaryTestError(isTemp) ==
    [tag |-> "*temporaryTestError", subs |-> <<>>,
     text |-> <<"temporary test error">>, temp |-> isTemp]

\* IsTemporary: a type assertion on the error value itself (its chain is not
\* searched), then its Temporary() answer. context.DeadlineExceeded is a
\* value of a type whose Temporary() answers true.
IsTemporary(e) ==
    IF e.tag = "*temporaryTestError" THEN e.temp
    ELSE e = DeadlineExceeded

\* WithLogging: the returned Config's OnRetry is a closure over the logger
\* and the Config's former OnRetry
WithLogging(cfg, logger) ==
    [MaxAttempts |-> cfg.MaxAttempts, Backoff |-> cfg.Backoff,
     IsRecoverable |-> cfg.IsRecoverable, OnRetry |-> "WithLogging",
     logger |-> logger, originalOnRetry |-> cfg.OnRetry]

\* WithTemporaryErrorHandling: the returned Config's IsRecoverable is a
\* closure over the Config's former IsRecoverable
WithTemporaryErrorHandling(cfg) ==
    [MaxAttempts |-> cfg.MaxAttempts, Backoff |-> cfg.Backoff,
     IsRecoverable |-> "WithTemporaryErrorHandling", OnRetry |-> cfg.OnRetry,
     originalIsRecoverable |-> cfg.IsRecoverable]

\* the predicates a caller supplies directly: the default one installed by
\* validation, one that accepts every error, one that accepts none
CallerPredicate(kind, e) ==
    IF kind = "default" THEN DefaultRecoverable(e)
    ELSE IF kind = "always" THEN e # NilErr
    ELSE FALSE

\* (variant: without an original predicate every error is accepted)
IsRecoverableMutFallbackAll(cfg, e) ==
    IF cfg.IsRecoverable = "WithTemporaryErrorHandling"
    THEN IF IsTemporary(e) THEN TRUE
         ELSE IF cfg.originalIsRecoverable # "nil"
              THEN CallerPredicate(cfg.originalIsRecoverable, e)
              ELSE e # NilErr
    ELSE CallerPredicate(cfg.IsRecoverable, e)

IsRecoverable(cfg, e) ==
    IF cfg.IsRecoverable = "WithTemporaryErrorHandling"
    THEN IF IsTemporary(e) THEN TRUE
         ELSE IF cfg.originalIsRecoverable # "nil"
              THEN CallerPredicate(cfg.originalIsRecoverable, e)
              ELSE e # NilErr /\ ~IsUnrecoverableError(e)
    ELSE CallerPredicate(cfg.IsRecoverable, e)

---------------------------------------------------------------------------
(* Inputs of one invocation                                                *)

MaxAttemptsBound == 3

E1 == ErrorsNew("temporary error")
E2 == ErrorsNew("persistent error")

\* the errors the operation returns: an ordinary error, marked errors (the
\* marker on top and below a wrap), cancellation errors, and errors that
\* carry the exhaustion sentinel of a nested retry
OpErrs ==
    {E1,
     NewUnrecoverableError(E1), Wrapf(NewUnrecoverableError(E2)),
     Canceled, DeadlineExceeded,
     Wrapf(ErrAllAttemptsFailed),
     NewUnrecoverableError(Wrapf(ErrAllAttemptsFailed))}

\* what one operation invocation returns: (value, error)
\* what one invocation of an operation with the error repertoire errs can
\* return: a value with no error, a value with NewUnrecoverableError(nil) as
\* its error, or the zero value with one of its errors
OutcomesOf(errs) ==
    {[val |-> "v1", err |-> NilErr], [val |-> "v1", err |-> NewUnrecoverableError(NilErr)]}
        \cup {[val |-> "zero", err |-> e] : e \in errs}

OpOutcomes == OutcomesOf(OpErrs)

Configs ==
    [MaxAttempts : 0 .. MaxAttemptsBound,
     Backoff : {"nil", "policy"},
     IsRecoverable : {"nil", "always", "never"},
     OnRetry : {"nil", "set"}]

\* the policy behind config.Backoff
ExecPolicies == {New(1, 20, <<2, 1>>, <<1, 2>>)}

NoRet == [val |-> "none", err |-> NilErr]

\* WithTimeout's timeout argument: negative, zero, positive
Timeouts == {-1, 0, 5}

\* a per-attempt context: its Err(), and whether its own deadline passed
\* (own) rather than its parent firing
NoTctx == [err |-> "none", own |-> FALSE]
\* context.WithTimeout(ctx, timeout), line 65: a child of ctx; the child of
\* a context that has fired is fired already, with the parent's error
ContextWithTimeout(c) == [err |-> c, own |-> FALSE]

---------------------------------------------------------------------------
(* Spec: one invocation of Do or DoWithValue                               *)

HistoryInit ==
    /\ opLog = <<>>
    /\ retryLog = <<>>
    /\ delayLog = <<>>
    /\ waitLog = <<>>
    /\ recLog = <<>>
    /\ minDelayCalls = 0
    /\ opsAtFire = 0
    /\ lateOps = 0
    /\ tctxAtReturn = NoTctx
    /\ logLog = <<>>
    /\ delayRets = <<>>
    /\ runs = 1

\* no error value is under construction while an invocation is observed
ErrorIdle ==
    /\ xcause = NilErr
    /\ xerr = NilErr
    /\ xmarked = FALSE
    /\ xlayers = <<>>

\* no generated decorator is in use
DecoratorIdle ==
    /\ deco = [maxAttempts |-> 5]
    /\ ctxParam = "nil"
    /\ mpc = "done"
    /\ mAttempt = 0
    /\ wait = 0
    /\ mErr = NilErr
    /\ mRet = NilErr
    /\ calls = 0
    /\ mFiredAt = "never"
    /\ callsAtFire = 0

\* an invocation of one of the three entry points, with a configuration of
\* cfgs and an operation whose errors are errs
RunInitOf(cfgs, errs) ==
    /\ fn \in {"Do", "DoWithValue", "WithTimeout"}
    /\ timeout \in (IF fn = "WithTimeout" THEN Timeouts ELSE {0})
    /\ tctx = NoTctx
    /\ callerCfg \in cfgs
    /\ baseCfg = callerCfg
    /\ opErrs = errs
    /\ config = callerCfg
    /\ ctxErr \in {"nil", "Canceled", "DeadlineExceeded"}
    /\ ctxAtEntry = ctxErr
    /\ firedAt = IF ctxErr = "nil" THEN "never" ELSE "entry"
    /\ pc = IF fn = "WithTimeout" THEN "withTimeout" ELSE "entry"
    /\ attempt = 0
    /\ delay = 0
    /\ err = NilErr
    /\ lastErr = NilErr
    /\ result = "zero"
    /\ loopErr = NilErr
    /\ ret = NoRet
    /\ timers = 0
    /\ HistoryInit
    /\ ErrorIdle
    /\ DecoratorIdle

RunInit == RunInitOf(Configs, OpErrs)

\* the policy is idle while the invocation is observed
PolicyIdle ==
    /\ mu = "free"
    /\ dpc = [g \in Goroutines |-> "idle"]
    /\ dprev = [g \in Goroutines |-> 0]
    /\ ddelay = [g \in Goroutines |-> 0]
    /\ drnd = [g \in Goroutines |-> 0]

Init ==
    /\ b \in ExecPolicies
    /\ PolicyIdle
    /\ RunInit

\* (variant: a zero MaxAttempts is left as it is)
ValidateConfigMutKeepZero(cfg) ==
    [cfg EXCEPT !.IsRecoverable = IF @ = "nil" THEN "default" ELSE @]

\* (variant: a zero MaxAttempts falls back to a default of two attempts)
ValidateConfigMutDefaultTwo(cfg) ==
    [cfg EXCEPT !.MaxAttempts = IF @ = 0 THEN 2 ELSE @,
                !.IsRecoverable = IF @ = "nil" THEN "default" ELSE @]

\* validateConfig, lines 487-501, on the callee's copy of the Config
ValidateConfig(cfg) ==
    [cfg EXCEPT !.MaxAttempts = IF @ = 0 THEN 1 ELSE @,
                !.IsRecoverable = IF @ = "nil" THEN "default" ELSE @]

\* (variant: only a negative timeout is refused)
WithTimeoutCheckMutZeroAllowed ==
    /\ pc = "withTimeout"
    /\ IF timeout < 0
       THEN /\ ret' = [val |-> "zero", err |-> ErrTimeoutInvalid]
            /\ pc' = "done"
       ELSE /\ pc' = "entry"
            /\ UNCHANGED ret
    /\ UNCHANGED <<bvars, fn, callerCfg, config, ctxErr, attempt, delay, err,
                   lastErr, result, loopErr, timers, hvars, tvars>>
    /\ UNCHANGED <<evars, xvars, gvars>>

\* WithTimeout lines 58-62 and 71: the timeout is checked, then DoWithValue
\* is entered with wrappedOp
WithTimeoutCheck ==
    /\ pc = "withTimeout"
    /\ IF timeout <= 0
       THEN /\ ret' = [val |-> "zero", err |-> ErrTimeoutInvalid]
            /\ pc' = "done"
       ELSE /\ pc' = "entry"
            /\ UNCHANGED ret
    /\ UNCHANGED <<bvars, fn, callerCfg, config, ctxErr, attempt, delay, err,
                   lastErr, result, loopErr, timers, hvars, tvars>>
    /\ UNCHANGED <<evars, xvars, gvars>>

\* (variant: the context is consulted before the Config is validated)
ValidateMutCtxFirst ==
    /\ pc = "entry"
    /\ IF ctxErr # "nil"
       THEN /\ ret' = [val |-> IF fn = "Do" THEN "none" ELSE "zero",
                       err |-> CtxErr(ctxErr)]
            /\ pc' = "done"
            /\ UNCHANGED config
       ELSE IF config.Backoff = "nil"
       THEN /\ ret' = [val |-> IF fn = "Do" THEN "none" ELSE "zero",
                       err |-> ErrBackoffRequired]
            /\ pc' = "done"
            /\ UNCHANGED config
       ELSE /\ config' = ValidateConfig(config)
            /\ pc' = "doRetry"
            /\ UNCHANGED ret
    /\ UNCHANGED <<bvars, fn, callerCfg, ctxErr, attempt, delay, err, lastErr,
                   result, loopErr, timers, hvars, tvars>>
    /\ UNCHANGED <<evars, xvars, gvars>>

\* Do lines 420-422, DoWithValue lines 457-459
\* (variant: validateConfig works on the caller's Config, not on a copy)
ValidateMutAliasesCaller ==
    /\ pc = "entry"
    /\ IF config.Backoff = "nil"
       THEN /\ ret' = [val |-> IF fn = "Do" THEN "none" ELSE "zero",
                       err |-> ErrBackoffRequired]
            /\ pc' = "done"
            /\ UNCHANGED <<config, callerCfg>>
       ELSE /\ config' = ValidateConfig(config)
            /\ callerCfg' = ValidateConfig(config)
            /\ pc' = "doRetry"
            /\ UNCHANGED ret
    /\ UNCHANGED <<bvars, fn, ctxErr, attempt, delay, err, lastErr,
                   result, loopErr, timers, hvars>>
    /\ UNCHANGED tvars
    /\ UNCHANGED <<evars, xvars, gvars>>

Validate ==
    /\ pc = "entry"
    /\ IF config.Backoff = "nil"
       THEN /\ ret' = [val |-> IF fn = "Do" THEN "none" ELSE "zero",
                       err |-> ErrBackoffRequired]
            /\ pc' = "done"
            /\ UNCHANGED config
       ELSE /\ config' = ValidateConfig(config)
            /\ pc' = "doRetry"
            /\ UNCHANGED ret
    /\ UNCHANGED <<bvars, fn, callerCfg, ctxErr, attempt, delay, err, lastErr,
                   result, loopErr, timers, hvars>>
    /\ UNCHANGED tvars
    /\ UNCHANGED <<evars, xvars, gvars>>

\* doRetry lines 506-507
DoRetryEnter ==
    /\ pc = "doRetry"
    /\ attempt' = 0
    /\ delay' = b.minDelay
    /\ minDelayCalls' = minDelayCalls + 1
    /\ pc' = "loop"
    /\ UNCHANGED <<bvars, fn, callerCfg, config, ctxErr, err, lastErr, result,
                   loopErr, ret, timers, opLog, retryLog, delayLog, waitLog,
                   recLog, ctxAtEntry, firedAt, opsAtFire, lateOps>>
    /\ UNCHANGED tvars
    /\ UNCHANGED <<evars, xvars, gvars>>

\* (variant: no context check before the attempt)
LoopHeadMutNoCtxCheck(at, max, c) ==
    IF at < max THEN [to |-> "invoke", e |-> NilErr]
    ELSE [to |-> "returned", e |-> ErrAllAttemptsFailed]

\* (variant: the context is checked before retries only, not before the
\* first attempt)
LoopHeadMutCheckAfterFirst(at, max, c) ==
    IF at < max
    THEN IF c # "nil" /\ at > 0 THEN [to |-> "returned", e |-> CtxErr(c)]
         ELSE [to |-> "invoke", e |-> NilErr]
    ELSE [to |-> "returned", e |-> ErrAllAttemptsFailed]

\* doRetry lines 509-513 and 556: the loop condition and the context check
\* before the attempt
LoopHead(at, max, c) ==
    IF at < max
    THEN IF c # "nil" THEN [to |-> "returned", e |-> CtxErr(c)]
         ELSE [to |-> "invoke", e |-> NilErr]
    ELSE [to |-> "returned", e |-> ErrAllAttemptsFailed]

LoopCheck ==
    /\ pc = "loop"
    /\ LET h == LoopHead(attempt, config.MaxAttempts, ctxErr) IN
          /\ pc' = h.to
          /\ loopErr' = h.e
    /\ UNCHANGED <<bvars, fn, callerCfg, config, ctxErr, attempt, delay, err,
                   lastErr, result, ret, timers, hvars>>
    /\ UNCHANGED tvars
    /\ UNCHANGED <<evars, xvars, gvars>>

\* doRetry line 516, closure line 428 / 464: the operation is entered; under
\* WithTimeout wrappedOp first derives the per-attempt context, lines 64-65
Invoke ==
    /\ pc = "invoke"
    /\ pc' = "inOp"
    /\ lateOps' = IF ctxErr # "nil" THEN lateOps + 1 ELSE lateOps
    /\ tctx' = IF fn = "WithTimeout" THEN ContextWithTimeout(ctxErr) ELSE NoTctx
    /\ UNCHANGED <<timeout, tctxAtReturn>>
    /\ UNCHANGED <<bvars, fn, callerCfg, config, ctxErr, attempt, delay, err,
                   lastErr, result, loopErr, ret, timers, opLog, retryLog, delayLog, waitLog,
                   recLog, minDelayCalls, ctxAtEntry, firedAt, opsAtFire>>
    /\ UNCHANGED <<evars, xvars, gvars>>

\* WithTimeout line 65: the per-attempt deadline passes while the operation
\* runs
AttemptTimeout ==
    /\ pc = "inOp"
    /\ tctx.err = "nil"
    /\ tctx' = [err |-> "DeadlineExceeded", own |-> TRUE]
    /\ UNCHANGED <<bvars, rvars, hvars, timeout, tctxAtReturn>>
    /\ UNCHANGED <<evars, xvars, gvars>>

\* closure lines 427-435 (Do) and 462-471 (DoWithValue): the operation
\* returns, the closure records lastErr and hands (success, err) to doRetry;
\* wrappedOp's deferred cancel releases the per-attempt context, line 66
OpReturn ==
    /\ pc = "inOp"
    /\ \E o \in OutcomesOf(opErrs) :
          /\ opLog' = Append(opLog, o)
          /\ err' = o.err
          /\ lastErr' = IF o.err = NilErr THEN lastErr ELSE o.err
          /\ result' = IF fn = "Do" THEN result ELSE o.val
    /\ tctxAtReturn' = tctx
    /\ tctx' = NoTctx
    /\ UNCHANGED timeout
    /\ pc' = "afterOp"
    /\ UNCHANGED <<bvars, fn, callerCfg, config, ctxErr, attempt, delay,
                   loopErr, ret, timers, retryLog, delayLog, waitLog, recLog,
                   minDelayCalls, ctxAtEntry, firedAt, opsAtFire, lateOps>>
    /\ UNCHANGED <<evars, xvars, gvars>>

\* (variant: the context is consulted before the outcome of the attempt)
AfterOpMutCtxFirst(e, c) ==
    IF c # "nil" THEN [to |-> "returned", e |-> CtxErr(c)]
    ELSE IF e = NilErr THEN [to |-> "returned", e |-> NilErr]
    ELSE IF Is(e, Canceled) \/ Is(e, DeadlineExceeded)
    THEN [to |-> "returned", e |-> e]
    ELSE [to |-> "classify", e |-> NilErr]

\* (variant: after a failure only the context's own state is consulted, not
\* the error's chain)
AfterOpMutCtxOnly(e, c) ==
    IF e = NilErr THEN [to |-> "returned", e |-> NilErr]
    ELSE IF c # "nil" THEN [to |-> "returned", e |-> e]
    ELSE [to |-> "classify", e |-> NilErr]

\* (variant: after a failure only the error's chain is consulted, not the
\* context)
AfterOpMutErrOnly(e, c) ==
    IF e = NilErr THEN [to |-> "returned", e |-> NilErr]
    ELSE IF Is(e, Canceled) \/ Is(e, DeadlineExceeded)
    THEN [to |-> "returned", e |-> e]
    ELSE [to |-> "classify", e |-> NilErr]

\* doRetry lines 517-526: success, then the cancellation check after a failure
AfterOp(e, c) ==
    IF e = NilErr THEN [to |-> "returned", e |-> NilErr]
    ELSE IF Is(e, Canceled) \/ Is(e, DeadlineExceeded) \/ c # "nil"
    THEN [to |-> "returned", e |-> e]
    ELSE [to |-> "classify", e |-> NilErr]

PostCheck ==
    /\ pc = "afterOp"
    /\ LET h == AfterOp(err, ctxErr) IN
          /\ pc' = h.to
          /\ loopErr' = h.e
    /\ UNCHANGED <<bvars, fn, callerCfg, config, ctxErr, attempt, delay, err,
                   lastErr, result, ret, timers, hvars>>
    /\ UNCHANGED tvars
    /\ UNCHANGED <<evars, xvars, gvars>>

\* doRetry lines 529-531
Classify ==
    /\ pc = "classify"
    /\ recLog' = Append(recLog, err)
    /\ IF IsRecoverable(config, err)
       THEN pc' = "count" /\ UNCHANGED loopErr
       ELSE pc' = "returned" /\ loopErr' = err
    /\ UNCHANGED <<bvars, fn, callerCfg, config, ctxErr, attempt, delay, err,
                   lastErr, result, ret, timers, opLog, retryLog, delayLog,
                   waitLog, minDelayCalls, ctxAtEntry, firedAt, opsAtFire, lateOps>>
    /\ UNCHANGED tvars
    /\ UNCHANGED <<evars, xvars, gvars>>

\* (variant: the comparison is off by one)
LastAttemptMutOffByOne(at, max) == at > max

\* doRetry lines 534-539: count the attempt; the last one breaks out to 556
LastAttempt(at, max) == at >= max

Count ==
    /\ pc = "count"
    /\ attempt' = attempt + 1
    /\ IF LastAttempt(attempt + 1, config.MaxAttempts)
       THEN pc' = "returned" /\ loopErr' = ErrAllAttemptsFailed
       ELSE pc' = "onRetry" /\ UNCHANGED loopErr
    /\ UNCHANGED <<bvars, fn, callerCfg, config, ctxErr, delay, err, lastErr,
                   result, ret, timers, hvars>>
    /\ UNCHANGED tvars
    /\ UNCHANGED <<evars, xvars, gvars>>

\* doRetry lines 542-544
\* whether config.OnRetry writes a log line: only the closure of WithLogging
\* does, and only with a logger
OnRetryLogs(cfg) == cfg.OnRetry = "WithLogging" /\ cfg.logger # "nil"

\* (variant: the former OnRetry is called only when a line was logged)
OnRetryCallsObserverMutNeedsLogger(cfg) ==
    IF cfg.OnRetry = "WithLogging"
    THEN cfg.logger # "nil" /\ cfg.originalOnRetry # "nil"
    ELSE cfg.OnRetry # "nil"

\* whether config.OnRetry ends up calling the caller's observer: directly, or
\* as the former OnRetry inside the closure of WithLogging
OnRetryCallsObserver(cfg) ==
    IF cfg.OnRetry = "WithLogging" THEN cfg.originalOnRetry # "nil"
    ELSE cfg.OnRetry # "nil"

\* (variant: the observer receives the zero-based attempt index)
CallOnRetryMutZeroBased ==
    /\ pc = "onRetry"
    /\ logLog' = IF OnRetryLogs(config)
                 THEN Append(logLog, [attempt |-> attempt, err |-> err.text,
                                      delay |-> delay, before |-> Len(retryLog)])
                 ELSE logLog
    /\ retryLog' = IF OnRetryCallsObserver(config)
                   THEN Append(retryLog, <<attempt - 1, err, delay>>)
                   ELSE retryLog
    /\ pc' = "select"
    /\ UNCHANGED <<bvars, fn, callerCfg, config, ctxErr, attempt, delay, err,
                   lastErr, result, loopErr, ret, timers, opLog, delayLog, waitLog, recLog,
                   minDelayCalls, ctxAtEntry, firedAt, opsAtFire, lateOps>>
    /\ UNCHANGED tvars
    /\ UNCHANGED <<opErrs, delayRets, runs, baseCfg, xvars, gvars>>

\* the line is written before the observer is called: `before` is the
\* number of observer calls made when the line is written
CallOnRetry ==
    /\ pc = "onRetry"
    /\ logLog' = IF OnRetryLogs(config)
                 THEN Append(logLog, [attempt |-> attempt, err |-> err.text,
                                      delay |-> delay, before |-> Len(retryLog)])
                 ELSE logLog
    /\ retryLog' = IF OnRetryCallsObserver(config)
                   THEN Append(retryLog, <<attempt, err, delay>>)
                   ELSE retryLog
    /\ pc' = "select"
    /\ UNCHANGED <<bvars, fn, callerCfg, config, ctxErr, attempt, delay, err,
                   lastErr, result, loopErr, ret, timers, opLog, delayLog, waitLog, recLog,
                   minDelayCalls, ctxAtEntry, firedAt, opsAtFire, lateOps>>
    /\ UNCHANGED tvars
    /\ UNCHANGED <<opErrs, delayRets, runs, baseCfg, xvars, gvars>>

\* doRetry lines 547 and 550: the select is entered, time.After starts a timer
StartWait ==
    /\ pc = "select"
    /\ timers' = timers + 1
    /\ pc' = "waiting"
    /\ UNCHANGED <<bvars, fn, callerCfg, config, ctxErr, attempt, delay, err,
                   lastErr, result, loopErr, ret, hvars>>
    /\ UNCHANGED tvars
    /\ UNCHANGED <<evars, xvars, gvars>>

\* doRetry lines 550-551: the timer's channel is chosen
\* (variant: the value Delay returns is not kept for the next wait)
WaitTimerMutDropsDelay ==
    /\ pc = "waiting"
    /\ timers' = timers - 1
    /\ waitLog' = Append(waitLog, [delay |-> delay, by |-> "timer"])
    /\ delayLog' = Append(delayLog, delay)
    /\ \E d \in DelayOutcomes(b, delay) : delayRets' = Append(delayRets, d)
    /\ delay' = delay
    /\ pc' = "loop"
    /\ UNCHANGED <<bvars, fn, callerCfg, config, ctxErr, attempt, err, lastErr,
                   result, loopErr, ret, opLog, retryLog, recLog,
                   minDelayCalls, ctxAtEntry, firedAt, opsAtFire, lateOps>>
    /\ UNCHANGED tvars
    /\ UNCHANGED <<opErrs, logLog, runs, baseCfg, xvars, gvars>>

\* (variant: OnRetry is called when the wait has elapsed, not before it)
WaitTimerMutCallsOnRetry ==
    /\ pc = "waiting"
    /\ timers' = timers - 1
    /\ waitLog' = Append(waitLog, [delay |-> delay, by |-> "timer"])
    /\ delayLog' = Append(delayLog, delay)
    /\ delay' \in DelayOutcomes(b, delay)
    /\ delayRets' = Append(delayRets, delay')
    /\ pc' = "loop"
    /\ retryLog' = IF OnRetryCallsObserver(config)
                   THEN Append(retryLog, <<attempt, err, delay>>)
                   ELSE retryLog
    /\ UNCHANGED <<bvars, fn, callerCfg, config, ctxErr, attempt, err, lastErr,
                   result, loopErr, ret, opLog, recLog,
                   minDelayCalls, ctxAtEntry, firedAt, opsAtFire, lateOps>>
    /\ UNCHANGED tvars
    /\ UNCHANGED <<opErrs, logLog, runs, baseCfg, xvars, gvars>>

WaitTimer ==
    /\ pc = "waiting"
    /\ timers' = timers - 1
    /\ waitLog' = Append(waitLog, [delay |-> delay, by |-> "timer"])
    /\ delayLog' = Append(delayLog, delay)
    /\ delay' \in DelayOutcomes(b, delay)
    /\ delayRets' = Append(delayRets, delay')
    /\ pc' = "loop"
    /\ UNCHANGED <<bvars, fn, callerCfg, config, ctxErr, attempt, err, lastErr,
                   result, loopErr, ret, opLog, retryLog, recLog,
                   minDelayCalls, ctxAtEntry, firedAt, opsAtFire, lateOps>>
    /\ UNCHANGED tvars
    /\ UNCHANGED <<opErrs, logLog, runs, baseCfg, xvars, gvars>>

\* (variant: ctx.Done() breaks out of the loop instead of returning ctx.Err())
WaitCtxDoneMutBreak ==
    /\ pc = "waiting"
    /\ ctxErr # "nil"
    /\ waitLog' = Append(waitLog, [delay |-> delay, by |-> "ctx"])
    /\ loopErr' = ErrAllAttemptsFailed
    /\ pc' = "returned"
    /\ UNCHANGED <<bvars, fn, callerCfg, config, ctxErr, attempt, delay, err,
                   lastErr, result, ret, timers, opLog, retryLog, delayLog,
                   recLog, minDelayCalls, ctxAtEntry, firedAt, opsAtFire, lateOps>>
    /\ UNCHANGED tvars
    /\ UNCHANGED <<evars, xvars, gvars>>

\* doRetry lines 548-549: ctx.Done() is chosen. The timer of time.After is
\* never stopped: with a Go toolchain before 1.23 it stays pending until it
\* fires, with a later one the runtime drops it when the select is left
WaitCtxDone ==
    /\ pc = "waiting"
    /\ ctxErr # "nil"
    /\ waitLog' = Append(waitLog, [delay |-> delay, by |-> "ctx"])
    /\ loopErr' = CtxErr(ctxErr)
    /\ pc' = "returned"
    /\ timers' \in {timers, timers - 1}
    /\ UNCHANGED <<bvars, fn, callerCfg, config, ctxErr, attempt, delay, err,
                   lastErr, result, ret, opLog, retryLog, delayLog,
                   recLog, minDelayCalls, ctxAtEntry, firedAt, opsAtFire, lateOps>>
    /\ UNCHANGED tvars
    /\ UNCHANGED <<evars, xvars, gvars>>

\* Do lines 437-446
DoResult(e, last, res) ==
    IF e = NilErr THEN [val |-> "none", err |-> NilErr]
    ELSE IF Is(e, ErrAllAttemptsFailed)
    THEN [val |-> "none", err |-> ErrorfWW(ErrAllAttemptsFailed, last)]
    ELSE [val |-> "none", err |-> e]

\* (variant: the zero value is returned on every path)
DoWithValueResultMutZero(e, last, res) ==
    IF e = NilErr THEN [val |-> "zero", err |-> NilErr]
    ELSE IF Is(e, ErrAllAttemptsFailed)
    THEN [val |-> "zero", err |-> ErrorfWV(ErrAllAttemptsFailed, last)]
    ELSE [val |-> "zero", err |-> e]

\* DoWithValue lines 473-483
DoWithValueResult(e, last, res) ==
    IF e = NilErr THEN [val |-> res, err |-> NilErr]
    ELSE IF Is(e, ErrAllAttemptsFailed)
    THEN [val |-> "zero", err |-> ErrorfWV(ErrAllAttemptsFailed, last)]
    ELSE [val |-> "zero", err |-> e]

\* doRetry has returned: the entry point builds its own return value
Return ==
    /\ pc = "returned"
    /\ ret' = IF fn = "Do" THEN DoResult(loopErr, lastErr, result)
              ELSE DoWithValueResult(loopErr, lastErr, result)
    /\ pc' = "done"
    /\ UNCHANGED <<bvars, fn, callerCfg, config, ctxErr, attempt, delay, err,
                   lastErr, result, loopErr, timers, hvars>>
    /\ UNCHANGED tvars
    /\ UNCHANGED <<evars, xvars, gvars>>

\* the caller of the context cancels it; a live per-attempt context fires
\* with its parent
CtxCancel ==
    /\ pc # "done"
    /\ ctxErr = "nil"
    /\ ctxErr' = "Canceled"
    /\ tctx' = IF tctx.err = "nil" THEN [tctx EXCEPT !.err = "Canceled"] ELSE tctx
    /\ UNCHANGED <<timeout, tctxAtReturn>>
    /\ firedAt' = pc
    /\ opsAtFire' = Len(opLog) + (IF pc = "inOp" THEN 1 ELSE 0)
    /\ UNCHANGED <<bvars, fn, callerCfg, config, pc, attempt, delay, err,
                   lastErr, result, loopErr, ret, timers, opLog, retryLog,
                   delayLog, waitLog, recLog, minDelayCalls, ctxAtEntry,
                   lateOps>>
    /\ UNCHANGED <<evars, xvars, gvars>>

\* the context's deadline passes
CtxExpire ==
    /\ pc # "done"
    /\ ctxErr = "nil"
    /\ ctxErr' = "DeadlineExceeded"
    /\ tctx' = IF tctx.err = "nil" THEN [tctx EXCEPT !.err = "DeadlineExceeded"] ELSE tctx
    /\ UNCHANGED <<timeout, tctxAtReturn>>
    /\ firedAt' = pc
    /\ opsAtFire' = Len(opLog) + (IF pc = "inOp" THEN 1 ELSE 0)
    /\ UNCHANGED <<bvars, fn, callerCfg, config, pc, attempt, delay, err,
                   lastErr, result, loopErr, ret, timers, opLog, retryLog,
                   delayLog, waitLog, recLog, minDelayCalls, ctxAtEntry,
                   lateOps>>
    /\ UNCHANGED <<evars, xvars, gvars>>

Next ==
    \/ WithTimeoutCheck
    \/ Validate
    \/ DoRetryEnter
    \/ LoopCheck
    \/ Invoke
    \/ AttemptTimeout
    \/ OpReturn
    \/ PostCheck
    \/ Classify
    \/ Count
    \/ CallOnRetry
    \/ StartWait
    \/ WaitTimer
    \/ WaitCtxDone
    \/ Return
    \/ CtxCancel
    \/ CtxExpire

Spec == Init /\ [][Next]_vars

\* ---- invocations with a Config returned by an enhancer
MaxAttemptsEnh == 2

EnhBase ==
    [MaxAttempts : {MaxAttemptsEnh},
     Backoff : {"policy"},
     IsRecoverable : {"nil", "always", "never"},
     OnRetry : {"nil", "set"}]

EnhancedConfigs ==
    EnhBase
      \cup {WithLogging(c, l) : c \in EnhBase, l \in {"nil", "set"}}
      \cup {WithTemporaryErrorHandling(c) : c \in EnhBase}

EnhErrs ==
    {E1, TemporaryTestError(TRUE), TemporaryTestError(FALSE),
     Wrapf(TemporaryTestError(TRUE)), DeadlineExceeded,
     NewUnrecoverableError(E1), Wrapf(Canceled)}

InitEnhanced ==
    /\ b \in ExecPolicies
    /\ PolicyIdle
    /\ RunInitOf(EnhancedConfigs, EnhErrs)

SpecEnhanced == InitEnhanced /\ [][Next]_vars

\* ---- progress: the steps doRetry and its callers take by themselves, as
\* opposed to the operation returning, a wait ending, and the context or a
\* per-attempt deadline firing
ExecutorStep ==
    \/ WithTimeoutCheck \/ Validate \/ DoRetryEnter \/ LoopCheck \/ Invoke
    \/ PostCheck \/ Classify \/ Count \/ CallOnRetry \/ StartWait \/ Return

MaxAttemptsLive == 2

LiveConfigs ==
    [MaxAttempts : 0 .. MaxAttemptsLive,
     Backoff : {"nil", "policy"},
     IsRecoverable : {"nil", "always"},
     OnRetry : {"nil", "set"}]

LiveErrs == {E1, NewUnrecoverableError(E1), Canceled}

InitLive ==
    /\ b \in ExecPolicies
    /\ PolicyIdle
    /\ RunInitOf(LiveConfigs, LiveErrs)

\* the goroutine keeps running, every invocation of the operation returns,
\* and every wait ends: its timer fires, if the context does not end it
SpecLive ==
    /\ InitLive /\ [][Next]_vars
    /\ WF_vars(ExecutorStep)
    /\ WF_vars(OpReturn)
    /\ WF_vars(WaitTimer \/ WaitCtxDone)

\* as SpecLive, but no timer is ever bound to fire: a wait is only bound to
\* end once the context has fired
SpecCancellable ==
    /\ InitLive /\ [][Next]_vars
    /\ WF_vars(ExecutorStep)
    /\ WF_vars(OpReturn)
    /\ WF_vars(WaitCtxDone)

\* ---- the caller invokes again, passing the same Config value
MaxRuns == 2

ReuseBase ==
    [MaxAttempts : {0, 2},
     Backoff : {"nil", "policy"},
     IsRecoverable : {"nil", "never"},
     OnRetry : {"nil", "set"}]

ReuseConfigs ==
    ReuseBase
      \cup {WithLogging(c, "set") : c \in ReuseBase}
      \cup {WithTemporaryErrorHandling(c) : c \in ReuseBase}

ReuseErrs == {E1, TemporaryTestError(TRUE)}

\* the entry point is called again with the caller's Config value: the
\* callee starts from a fresh copy of it and fresh locals
Reuse ==
    /\ pc = "done"
    /\ runs < MaxRuns
    /\ runs' = runs + 1
    /\ config' = callerCfg
    /\ pc' = IF fn = "WithTimeout" THEN "withTimeout" ELSE "entry"
    /\ attempt' = 0 /\ delay' = 0
    /\ err' = NilErr /\ lastErr' = NilErr /\ loopErr' = NilErr
    /\ result' = "zero" /\ ret' = NoRet
    /\ timers' = 0
    /\ tctx' = NoTctx /\ tctxAtReturn' = NoTctx
    /\ opLog' = <<>> /\ retryLog' = <<>> /\ delayLog' = <<>>
    /\ waitLog' = <<>> /\ recLog' = <<>> /\ minDelayCalls' = 0
    /\ opsAtFire' = 0 /\ lateOps' = 0
    /\ logLog' = <<>> /\ delayRets' = <<>>
    /\ ctxAtEntry' = ctxErr
    /\ firedAt' = IF ctxErr = "nil" THEN "never" ELSE "entry"
    /\ UNCHANGED <<bvars, fn, callerCfg, ctxErr, timeout, opErrs, baseCfg, xvars, gvars>>

\* before its first call the caller applies an enhancer to the Config it
\* built, and passes the Config the enhancer returns
Enhance ==
    /\ pc \in {"withTimeout", "entry"}
    /\ runs = 1
    /\ callerCfg = baseCfg
    /\ callerCfg' \in {WithLogging(baseCfg, "set"), WithTemporaryErrorHandling(baseCfg)}
    /\ config' = callerCfg'
    /\ UNCHANGED <<bvars, fn, ctxErr, pc, attempt, delay, err, lastErr, result,
                   loopErr, ret, timers, hvars, tvars, opErrs, logLog, delayRets,
                   runs, baseCfg, xvars, gvars>>

InitReuse ==
    /\ b \in ExecPolicies
    /\ PolicyIdle
    /\ RunInitOf(ReuseBase, ReuseErrs)

NextReuse ==
    \/ Next
    \/ Enhance
    \/ Reuse

SpecReuse == InitReuse /\ [][NextReuse]_vars


---------------------------------------------------------------------------
(* SpecBackoff: the policy alone, no invocation in progress                *)

RunParked ==
    /\ fn = "none"
    /\ callerCfg = [MaxAttempts |-> 0, Backoff |-> "policy",
                    IsRecoverable |-> "nil", OnRetry |-> "nil"]
    /\ config = callerCfg
    /\ ctxErr = "nil"
    /\ ctxAtEntry = "nil"
    /\ firedAt = "never"
    /\ pc = "done"
    /\ attempt = 0
    /\ delay = 0
    /\ err = NilErr
    /\ lastErr = NilErr
    /\ result = "zero"
    /\ loopErr = NilErr
    /\ ret = NoRet
    /\ timers = 0
    /\ timeout = 0
    /\ tctx = NoTctx
    /\ opErrs = {}
    /\ baseCfg = callerCfg
    /\ HistoryInit

InitBackoff == BackoffInit /\ RunParked /\ ErrorIdle /\ DecoratorIdle

NextBackoff ==
    \/ \E g \in Goroutines : DelayCall(g)
    \/ \E g \in Goroutines : DelayLock(g)
    \/ \E g \in Goroutines : DelayDraw(g)
    \/ \E g \in Goroutines : DelayUnlock(g)
    \/ \E g \in Goroutines : DelayReturn(g)
    \/ \E g \in Goroutines : DelayDone(g)

SpecBackoff == InitBackoff /\ [][NextBackoff]_vars

\* ---- the error taxonomy alone: an error is built from a cause by marking
\* and wrapping, with no invocation in progress
MaxLayers == 3

Causes ==
    {E1, E2, Wrapf(E1), ErrorfWW(E1, E2), Canceled, ErrAllAttemptsFailed,
     TemporaryTestError(TRUE)}

\* the wrapping layers: fmt.Errorf with %w around the error, and with two %w
\* with the error as the first or as the second operand
Layers == {"wrapf", "errorf-first", "errorf-second"}

WrapWith(kind, e) ==
    IF kind = "wrapf" THEN Wrapf(e)
    ELSE IF kind = "errorf-first" THEN ErrorfWW(e, E2)
    ELSE ErrorfWW(ErrAllAttemptsFailed, e)

ErrorInit ==
    /\ xcause \in Causes
    /\ xerr = xcause
    /\ xmarked = FALSE
    /\ xlayers = <<>>

\* retry.NewUnrecoverableError(xerr); a construction is a marking and up to
\* MaxLayers wrapping layers, in any order
MarkUnrecoverable ==
    /\ Len(xlayers) < MaxLayers + 1
    /\ xcause' = xerr
    /\ xerr' = NewUnrecoverableError(xerr)
    /\ xmarked' = TRUE
    /\ xlayers' = Append(xlayers, "mark")
    /\ UNCHANGED <<bvars, rvars, hvars, tvars, evars, gvars>>

\* one more wrapping layer around xerr
WrapLayer ==
    /\ Len(xlayers) < MaxLayers + 1
    /\ \E kind \in Layers :
          /\ xerr' = WrapWith(kind, xerr)
          /\ xlayers' = Append(xlayers, kind)
    /\ UNCHANGED <<xcause, xmarked>>
    /\ UNCHANGED <<bvars, rvars, hvars, tvars, evars, gvars>>

InitErrors ==
    /\ b \in ExecPolicies
    /\ PolicyIdle
    /\ RunParked
    /\ ErrorInit
    /\ DecoratorIdle

NextErrors ==
    \/ MarkUnrecoverable
    \/ WrapLayer

SpecErrors == InitErrors /\ [][NextErrors]_vars

\* ---- the decorator generated from retry.go.tmpl: one call of a method
\* that returns an error, no executor invocation in progress
MaxAttemptsArg == 2

\* the default of line 35
DefaultMaxAttempts == 5

\* New<Name>WithRetry, lines 28-44 (maxAttempts is a uint8)
NewWithRetry(maxAttempts) ==
    [maxAttempts |-> IF maxAttempts = 0 THEN DefaultMaxAttempts ELSE maxAttempts]

\* what the underlying method can return
MethodErrs == {NilErr, E1, Canceled, Wrapf(Canceled)}

\* line 100: fmt.Errorf("context cancelled during retry: %w", ctxParam.Err())
ErrorfCancelled(e) ==
    [tag |-> "*fmt.wrapError", subs |-> <<e>>,
     text |-> <<"context cancelled during retry">> \o e.text]

\* lines 53-55: the method is entered with a context that may have fired
DecoratorInit ==
    /\ \E maxAttempts \in 0 .. MaxAttemptsArg : deco = NewWithRetry(maxAttempts)
    /\ ctxParam \in {"nil", "Canceled", "DeadlineExceeded"}
    /\ mpc = "call"
    /\ mAttempt = 0
    /\ wait = b.minDelay
    /\ mErr = NilErr
    /\ mRet = NilErr
    /\ calls = 0
    /\ mFiredAt = IF ctxParam = "nil" THEN "never" ELSE "entry"
    /\ callsAtFire = 0

\* lines 57-76: the loop body calls the underlying method; nothing looks at
\* the context before the call
\* (variant: the context is checked before every call)
CallUnderlyingMutCtxCheck ==
    /\ mpc = "call"
    /\ IF ctxParam # "nil"
       THEN /\ mRet' = ErrorfCancelled(CtxErr(ctxParam))
            /\ mpc' = "done"
            /\ UNCHANGED <<mErr, calls>>
       ELSE /\ mErr' \in MethodErrs
            /\ calls' = calls + 1
            /\ mpc' = "check"
            /\ UNCHANGED mRet
    /\ UNCHANGED <<deco, ctxParam, mAttempt, wait, mFiredAt, callsAtFire>>
    /\ UNCHANGED <<bvars, rvars, hvars, tvars, evars, xvars>>

CallUnderlying ==
    /\ mpc = "call"
    /\ mErr' \in MethodErrs
    /\ calls' = calls + 1
    /\ mpc' = "check"
    /\ UNCHANGED <<deco, ctxParam, mAttempt, wait, mRet, mFiredAt, callsAtFire>>
    /\ UNCHANGED <<bvars, rvars, hvars, tvars, evars, xvars>>

\* line 90: whether the attempts are used up
\* (variant: the call just made is counted)
AttemptsUsedMutCountsCall(at, max) == at + 1 >= max

AttemptsUsed(at, max) == at >= max

\* lines 79-95: success, a cancellation error of the underlying method, the
\* attempts used up, or a wait
CheckResult ==
    /\ mpc = "check"
    /\ IF mErr = NilErr
       THEN mRet' = NilErr /\ mpc' = "done"
       ELSE IF Is(mErr, Canceled)
       THEN mRet' = mErr /\ mpc' = "done"
       ELSE IF AttemptsUsed(mAttempt, deco.maxAttempts)
       THEN mRet' = ErrAllAttemptsFailed /\ mpc' = "done"
       ELSE mpc' = "select" /\ UNCHANGED mRet
    /\ UNCHANGED <<deco, ctxParam, mAttempt, wait, mErr, calls, mFiredAt, callsAtFire>>
    /\ UNCHANGED <<bvars, rvars, hvars, tvars, evars, xvars>>

\* lines 99-100: ctxParam.Done() is chosen
SelectCtxDone ==
    /\ mpc = "select"
    /\ ctxParam # "nil"
    /\ mRet' = ErrorfCancelled(CtxErr(ctxParam))
    /\ mpc' = "done"
    /\ UNCHANGED <<deco, ctxParam, mAttempt, wait, mErr, calls, mFiredAt, callsAtFire>>
    /\ UNCHANGED <<bvars, rvars, hvars, tvars, evars, xvars>>

\* lines 101-103: the timer's channel is chosen, whether or not the context
\* has fired as well; the loop goes round to the next call
SelectTimer ==
    /\ mpc = "select"
    /\ mAttempt' = (mAttempt + 1) % 256
    /\ wait' \in DelayOutcomes(b, wait)
    /\ mpc' = "call"
    /\ UNCHANGED <<deco, ctxParam, mErr, mRet, calls, mFiredAt, callsAtFire>>
    /\ UNCHANGED <<bvars, rvars, hvars, tvars, evars, xvars>>

\* the caller of the method cancels ctxParam, or its deadline passes
CtxParamFire ==
    /\ mpc # "done"
    /\ ctxParam = "nil"
    /\ ctxParam' \in {"Canceled", "DeadlineExceeded"}
    /\ mFiredAt' = mpc
    /\ callsAtFire' = calls
    /\ UNCHANGED <<deco, mpc, mAttempt, wait, mErr, mRet, calls>>
    /\ UNCHANGED <<bvars, rvars, hvars, tvars, evars, xvars>>

InitDecorator ==
    /\ b \in ExecPolicies
    /\ PolicyIdle
    /\ RunParked
    /\ ErrorIdle
    /\ DecoratorInit

NextDecorator ==
    \/ CallUnderlying
    \/ CheckResult
    \/ SelectCtxDone
    \/ SelectTimer
    \/ CtxParamFire

SpecDecorator == InitDecorator /\ [][NextDecorator]_vars

---------------------------------------------------------------------------
(* Properties of BackOff.Delay, checked under SpecBackoff                  *)

Returned(g) == dpc[g] = "ret"

\* C1: for a policy with 0 <= minDelay <= maxDelay, a call Delay(previous)
\* with previous >= 0 returns a delay within [minDelay, maxDelay], for every
\* factor >= 0, every jitter and every draw, also while another goroutine
\* is inside Delay on the same policy.
C1_DelayWithinBounds ==
    \A g \in Goroutines :
        (/\ Returned(g)
         /\ 0 <= b.minDelay /\ b.minDelay <= b.maxDelay
         /\ dprev[g] >= 0)
        => (b.minDelay <= ddelay[g] /\ ddelay[g] <= b.maxDelay)

\* a very large factor and a jitter above 1: g1 has returned from a call
\* whose product overflowed while g2 holds the mutex
C1_Witness ==
    /\ Returned("g1")
    /\ b.minDelay = 2 /\ b.maxDelay = 20
    /\ b.factor = <<1000, 1>> /\ b.jitter = <<2, 1>>
    /\ dprev["g1"] = 9
    /\ ddelay["g1"] = 20
    /\ dpc["g2"] = "unlock"

ClampTo(x, lo, hi) == IF x < lo THEN lo ELSE IF x > hi THEN hi ELSE x

\* C2: with jitter = 0, Delay(previous) is exactly
\* clamp(max(previous, minDelay) * factor, minDelay, maxDelay) for every
\* previous; in particular a product above maxDelay is returned as maxDelay.
\* (The product is taken as the Duration it converts to, and the policy as
\* one with minDelay <= maxDelay.)
C2_ZeroJitterIsClampedProduct ==
    \A g \in Goroutines :
        (/\ Returned(g)
         /\ b.jitter[1] = 0
         /\ b.minDelay <= b.maxDelay)
        => LET prev == IF dprev[g] < b.minDelay THEN b.minDelay ELSE dprev[g]
               product == TruncDiv(prev * b.factor[1], b.factor[2])
           IN ddelay[g] = ClampTo(product, b.minDelay, b.maxDelay)

---------------------------------------------------------------------------
(* Properties of Do / DoWithValue, checked under Spec                      *)

Done == pc = "done"
\* the arguments passed validation: a backoff policy was supplied, and
\* WithTimeout was given a positive timeout
Validated ==
    /\ config.Backoff = "policy"
    /\ fn = "WithTimeout" => timeout > 0
NeverFired == firedAt = "never"
Invocations == Len(opLog)

\* a failure the executor retries: not a cancellation or deadline error, and
\* accepted by the configured predicate
Retryable(e) ==
    /\ e # NilErr
    /\ ~Is(e, Canceled)
    /\ ~Is(e, DeadlineExceeded)
    /\ IsRecoverable(config, e)

FirstFailuresRetryable(k) == \A i \in 1 .. k : Retryable(opLog[i].err)

\* C3: when the operation fails with recoverable errors k times and then
\* succeeds, k < MaxAttempts, and the context never fires, Do returns nil
\* (DoWithValue the successful value and nil), after exactly k+1 invocations,
\* k OnRetry calls and k Backoff.Delay calls.  A run whose invocations all
\* failed recoverably does not end before MaxAttempts invocations, so the
\* run cannot stop short of the success.
C3_SuccessAfterKFailures ==
    (Done /\ Validated /\ NeverFired)
    => /\ Invocations >= 1
       /\ (/\ FirstFailuresRetryable(Invocations - 1)
           /\ opLog[Invocations].err = NilErr)
          => /\ Invocations - 1 < config.MaxAttempts
             /\ ret.err = NilErr
             /\ (fn = "DoWithValue" => ret.val = opLog[Invocations].val)
             /\ (config.OnRetry = "set" => Len(retryLog) = Invocations - 1)
             /\ Len(delayLog) = Invocations - 1
       /\ FirstFailuresRetryable(Invocations)
          => Invocations = config.MaxAttempts

C3_Witness ==
    /\ Done /\ Validated /\ NeverFired
    /\ fn = "DoWithValue"
    /\ config.MaxAttempts = 3 /\ config.OnRetry = "set"
    /\ Invocations = 3
    /\ FirstFailuresRetryable(2)
    /\ ret = [val |-> "v1", err |-> NilErr]
    /\ Len(retryLog) = 2 /\ Len(delayLog) = 2

\* C4: when every invocation fails with a recoverable error, MaxAttempts is
\* N >= 1 and the context never fires, the operation is invoked exactly N
\* times, OnRetry exactly N-1 times, and the returned error is identifiable
\* as ErrAllAttemptsFailed.
C4_ExhaustionAfterNFailures ==
    (/\ Done /\ Validated /\ NeverFired
     /\ callerCfg.MaxAttempts >= 1
     /\ FirstFailuresRetryable(Invocations))
    => /\ Invocations = callerCfg.MaxAttempts
       /\ (config.OnRetry = "set" => Len(retryLog) = callerCfg.MaxAttempts - 1)
       /\ Is(ret.err, ErrAllAttemptsFailed)

C4_Witness ==
    /\ Done /\ Validated /\ NeverFired
    /\ fn = "Do"
    /\ callerCfg.MaxAttempts = 3 /\ config.OnRetry = "set"
    /\ FirstFailuresRetryable(Invocations)
    /\ Invocations = 3
    /\ Len(retryLog) = 2
    /\ Is(ret.err, ErrAllAttemptsFailed)

\* doRetry ran out of attempts (line 556)
Exhausted == Done /\ Validated /\ loopErr = ErrAllAttemptsFailed

\* C5: every exhaustion outcome, of Do and of DoWithValue, is identifiable
\* as ErrAllAttemptsFailed and chain-contains the error of the final
\* operation invocation.
C5_ExhaustionCarriesLastError ==
    Exhausted
    => /\ Is(ret.err, ErrAllAttemptsFailed)
       /\ Is(ret.err, opLog[Invocations].err)

\* C6: under the default predicate, an invocation that returns an error
\* carrying the unrecoverable marker ends the sequence: no later invocation,
\* no OnRetry for it, and the returned error is identifiable as
\* unrecoverable.  (The marked error is the last entry of opLog in every
\* state, so no invocation follows it; at the end OnRetry has run once per
\* earlier failure only.)
C6_UnrecoverableStops ==
    /\ \A i \in 1 .. Invocations :
          (config.IsRecoverable = "default" /\ IsUnrecoverableError(opLog[i].err))
          => /\ i = Invocations
             /\ Len(retryLog) <= i - 1
             /\ pc \in {"afterOp", "classify", "returned", "done"}
    /\ (/\ Done /\ Validated /\ Invocations >= 1
        /\ config.IsRecoverable = "default"
        /\ IsUnrecoverableError(opLog[Invocations].err))
       => IsUnrecoverableError(ret.err)

\* C7: when the context is cancelled during the wait that follows the i-th
\* failed invocation, the executor ends with an error identifiable as
\* context.Canceled and not as ErrAllAttemptsFailed, after at most i+1
\* invocations, whichever channel the select takes.
C7_CancelDuringWait ==
    (Done /\ firedAt = "waiting" /\ ctxErr = "Canceled")
    => /\ Is(ret.err, Canceled)
       /\ ~Is(ret.err, ErrAllAttemptsFailed)
       /\ Invocations <= opsAtFire + 1

\* cancelled during the wait, and the select still took the timer
C7_Witness ==
    /\ Done /\ firedAt = "waiting" /\ ctxErr = "Canceled"
    /\ waitLog[Len(waitLog)].by = "timer"
    /\ Len(delayLog) = Len(waitLog)
    /\ opsAtFire = 2
    /\ Is(ret.err, Canceled)

\* C8: when the context is already cancelled or expired at entry, the
\* operation is never invoked, OnRetry, IsRecoverable and Backoff.Delay are
\* never called, and (the Config having a backoff policy) the invocation
\* returns the context's error.
C8_CancelledAtEntry ==
    ctxAtEntry # "nil"
    => /\ opLog = <<>> /\ pc \notin {"invoke", "inOp", "afterOp"}
       /\ retryLog = <<>> /\ recLog = <<>> /\ delayLog = <<>>
       /\ waitLog = <<>> /\ timers = 0
       /\ (Done /\ Validated) => ret.err = CtxErr(ctxAtEntry)

C8_Witness ==
    /\ Done /\ Validated
    /\ ctxAtEntry = "DeadlineExceeded"
    /\ fn = "DoWithValue"
    /\ callerCfg.MaxAttempts = 0
    /\ ret = [val |-> "zero", err |-> DeadlineExceeded]
    /\ minDelayCalls = 1

\* C9, as stated: once the context has fired no operation invocation begins,
\* at whatever point it fires, the gap between the pre-attempt check and the
\* invocation included.
C9_NoInvocationAfterFire == lateOps = 0

\* C9, amended: an invocation begins after the context has fired only when
\* the context fired between that invocation's pre-attempt check and the
\* invocation; it is the only one, and no invocation follows it.
C9_NoInvocationAfterObservedFire ==
    /\ lateOps <= 1
    /\ lateOps = 1 => (firedAt = "invoke" /\ Invocations <= opsAtFire + 1)
    /\ (firedAt \notin {"never", "invoke"}) => Invocations <= opsAtFire

C9_Witness ==
    /\ Done
    /\ firedAt = "invoke" /\ lateOps = 1
    /\ opsAtFire = 1 /\ Invocations = 2
    /\ config.MaxAttempts = 3

BeforeOrBetweenAttempts ==
    firedAt \in {"entry", "withTimeout", "doRetry", "loop", "onRetry", "select",
                 "waiting"}

Rejected == recLog # <<>> /\ ~IsRecoverable(config, recLog[Len(recLog)])

\* C11: when the configured predicate classifies an operation error as not
\* recoverable, the invocation ends and returns the identical error value the
\* operation returned, whatever that error's chain contains and on whichever
\* attempt.
C11_NonRecoverableReturnedUnchanged ==
    (Done /\ Rejected)
    => /\ recLog[Len(recLog)] = opLog[Invocations].err
       /\ ret.err = opLog[Invocations].err

\* MaxAttempts after validateConfig's coercion of 0 to 1
EffectiveMax == IF callerCfg.MaxAttempts = 0 THEN 1 ELSE callerCfg.MaxAttempts

\* operation invocations begun so far
Begun == Invocations + (IF pc = "inOp" THEN 1 ELSE 0)

\* C12: in every reachable state the attempt counter is at most MaxAttempts
\* (a supplied 0 counting as 1) and the operation has been invoked at most
\* MaxAttempts times, for every sequence of outcomes and every cancellation
\* timing.
C12_AttemptsBounded ==
    /\ attempt <= EffectiveMax
    /\ Begun <= EffectiveMax

\* the budget is used up to the last attempt, the context firing after it
C12_Witness ==
    /\ Done
    /\ callerCfg.MaxAttempts = 3
    /\ attempt = 3 /\ Invocations = 3
    /\ firedAt = "count"

\* C13, as stated: every invocation invokes the operation at least once,
\* regardless of configuration.
C13_InvokedAtLeastOnce == Done => Invocations >= 1

\* the context had fired when doRetry made its first pre-attempt check
FiredBeforeFirstCheck ==
    \/ firedAt \in {"entry", "withTimeout", "doRetry"}
    \/ firedAt = "loop" /\ opsAtFire = 0

\* C13, amended: an invocation whose arguments pass validation and whose
\* context has not fired at the first pre-attempt check invokes the operation
\* at least once, whatever MaxAttempts (0 included), predicate and OnRetry
\* are; any other invocation does not invoke it at all.
C13_InvokedAtLeastOnceWhenAdmitted ==
    Done => IF Validated /\ ~FiredBeforeFirstCheck
            THEN Invocations >= 1
            ELSE Invocations = 0

\* MaxAttempts = 0, and the context fires right after the first check
C13_Witness ==
    /\ Done /\ Validated
    /\ callerCfg.MaxAttempts = 0
    /\ firedAt = "invoke"
    /\ Invocations = 1

\* C14: OnRetry is called once per scheduled retry only: the i-th call
\* reports the i-th failure, a failure the executor retries (not a success,
\* not rejected by the predicate, not a cancellation) with attempts left
\* (i < MaxAttempts), so at most MaxAttempts-1 calls are made; a failure
\* whose post-check finds the context fired gets no call; and every retry
\* that is scheduled has had its call.
C14_OnRetryOncePerScheduledRetry ==
    /\ Len(retryLog) <= EffectiveMax - 1
    /\ \A i \in 1 .. Len(retryLog) :
          /\ retryLog[i][1] = i
          /\ i < config.MaxAttempts
          /\ i <= Invocations
          /\ retryLog[i][2] = opLog[i].err
          /\ Retryable(opLog[i].err)
    /\ firedAt = "invoke" => Len(retryLog) <= opsAtFire
    /\ firedAt \in {"inOp", "afterOp"} => Len(retryLog) <= opsAtFire - 1
    /\ (config.OnRetry = "set" /\ pc \in {"select", "waiting"})
       => Len(retryLog) = attempt

\* two retries were scheduled and reported; the third failure is rejected by
\* the predicate and gets no call
C14_Witness ==
    /\ Done /\ Validated
    /\ config.OnRetry = "set" /\ callerCfg.MaxAttempts = 3
    /\ Invocations = 3 /\ Rejected
    /\ Len(retryLog) = 2

\* C15: an invocation of the operation that returns no error is the last
\* thing the run does: no invocation, OnRetry call, Backoff.Delay call or
\* wait follows it (each was made for the failures before it only), Do
\* returns nil and DoWithValue the value of that invocation and nil, also
\* when the context has fired meanwhile.
C15_SuccessEndsTheRun ==
    \A i \in 1 .. Invocations :
        opLog[i].err = NilErr
        => /\ i = Invocations
           /\ pc \in {"afterOp", "returned", "done"}
           /\ Len(retryLog) <= i - 1
           /\ Len(delayLog) = i - 1
           /\ Len(waitLog) = i - 1
           /\ timers = 0
           /\ Done => ret = [val |-> IF fn = "Do" THEN "none" ELSE opLog[i].val,
                             err |-> NilErr]

\* the third invocation succeeds while the context fires under it
C15_Witness ==
    /\ Done
    /\ fn = "DoWithValue"
    /\ Invocations = 3
    /\ firedAt = "inOp" /\ opsAtFire = 3
    /\ ret = [val |-> "v1", err |-> NilErr]

\* C16: a Config without a backoff policy makes the invocation return the
\* misconfiguration error before anything else: the operation, OnRetry,
\* IsRecoverable and the policy are never called, and the error is
\* identifiable neither as ErrAllAttemptsFailed nor as a cancellation nor as
\* unrecoverable, also when the context had fired at entry.
C16_MissingBackoffIsMisconfiguration ==
    (callerCfg.Backoff = "nil" /\ (fn = "WithTimeout" => timeout > 0))
    => /\ pc \in {"withTimeout", "entry", "done"}
       /\ opLog = <<>> /\ retryLog = <<>> /\ recLog = <<>>
       /\ delayLog = <<>> /\ waitLog = <<>> /\ minDelayCalls = 0
       /\ Done => /\ ret.err = ErrBackoffRequired
                  /\ fn # "Do" => ret.val = "zero"
                  /\ ~Is(ret.err, ErrAllAttemptsFailed)
                  /\ ~Is(ret.err, Canceled)
                  /\ ~Is(ret.err, DeadlineExceeded)
                  /\ ~IsUnrecoverableError(ret.err)

C16_Witness ==
    /\ Done
    /\ callerCfg.Backoff = "nil"
    /\ ctxAtEntry = "Canceled"
    /\ fn = "DoWithValue"
    /\ ret = [val |-> "zero", err |-> ErrBackoffRequired]

\* what the entry point makes of doRetry's result
EntryResult(e, last, res) ==
    IF fn = "Do" THEN DoResult(e, last, res) ELSE DoWithValueResult(e, last, res)

\* the outcome of a run of one attempt, as a function of the entry point, the
\* predicate, the outcome o of the single invocation and the point at which
\* the context fired
SingleAttemptResult(o) ==
    IF o.err = NilErr THEN EntryResult(NilErr, NilErr, o.val)
    ELSE IF \/ Is(o.err, Canceled) \/ Is(o.err, DeadlineExceeded)
            \/ firedAt \in {"invoke", "inOp", "afterOp"}
    THEN EntryResult(o.err, o.err, o.val)
    ELSE IF ~IsRecoverable(config, o.err) THEN EntryResult(o.err, o.err, o.val)
    ELSE EntryResult(ErrAllAttemptsFailed, o.err, o.val)

\* C17: a run with MaxAttempts = 0 and a run with MaxAttempts = 1 are the
\* same run.  After validation the callee's Config is the same value for
\* both, and the finished run is one function of the operation's behaviour
\* and the cancellation timing: no invocation and the context's error when
\* the context had fired at the first check, otherwise exactly one
\* invocation and the outcome of that invocation; never an OnRetry call, a
\* Backoff.Delay call or a wait.
C17_ZeroAttemptsIsOneAttempt ==
    (callerCfg.MaxAttempts \in {0, 1} /\ Validated)
    => /\ pc \notin {"withTimeout", "entry"}
          => config = ValidateConfig([callerCfg EXCEPT !.MaxAttempts = 1])
       /\ retryLog = <<>> /\ delayLog = <<>> /\ waitLog = <<>>
       /\ Done => IF FiredBeforeFirstCheck
                  THEN /\ Invocations = 0
                       /\ ret = EntryResult(CtxErr(ctxErr), NilErr, "zero")
                  ELSE /\ Invocations = 1
                       /\ ret = SingleAttemptResult(opLog[1])

\* MaxAttempts = 0: one invocation, a recoverable failure, exhaustion
C17_Witness ==
    /\ Done /\ Validated
    /\ callerCfg.MaxAttempts = 0 /\ config.OnRetry = "set"
    /\ Invocations = 1 /\ Retryable(opLog[1].err)
    /\ Is(ret.err, ErrAllAttemptsFailed)
    /\ retryLog = <<>>

\* The terminal outcomes, each told by what the run did.
\* success: the latest invocation returned no error (line 518)
OutcomeSuccess ==
    /\ Validated /\ loopErr = NilErr /\ ret.err = NilErr
    /\ Invocations >= 1 /\ opLog[Invocations].err = NilErr
\* classified non-retryable: the predicate rejected the latest failure
\* (line 530)
OutcomeRejected ==
    /\ Validated /\ Rejected /\ ret.err # NilErr
    /\ Len(recLog) = Invocations /\ loopErr = recLog[Len(recLog)]
\* attempts exhausted: every permitted attempt failed and was accepted by the
\* predicate (lines 538, 556)
OutcomeExhausted ==
    /\ Validated /\ ~Rejected /\ ret.err # NilErr
    /\ loopErr = ErrAllAttemptsFailed
    /\ attempt = config.MaxAttempts
    /\ Invocations = attempt /\ Len(recLog) = attempt
\* cancellation: the context was found fired before an attempt or in the
\* wait (lines 512, 549), or the latest failure was a cancellation error or
\* was followed by a fired context and never reached the predicate (line 525)
OutcomeCancelled ==
    /\ Validated /\ ~Rejected /\ ret.err # NilErr
    /\ \/ /\ Len(recLog) = Invocations
          /\ ctxErr # "nil" /\ loopErr = CtxErr(ctxErr)
       \/ /\ Invocations >= 1 /\ Len(recLog) = Invocations - 1
          /\ opLog[Invocations].err # NilErr
          /\ loopErr = opLog[Invocations].err
          /\ \/ Is(loopErr, Canceled) \/ Is(loopErr, DeadlineExceeded)
             \/ firedAt \in {"invoke", "inOp", "afterOp"}
\* misconfiguration: the arguments did not pass validation (lines 61, 489)
OutcomeMisconfigured ==
    /\ ~Validated /\ Invocations = 0
    /\ ret.err \in {ErrBackoffRequired, ErrTimeoutInvalid}

\* the number of the given conditions that hold
HowMany(conds) == Cardinality({i \in DOMAIN conds : conds[i]})

\* once doRetry has returned nothing more is invoked, and what the entry
\* point returned stays
NothingAfterOutcome ==
    /\ pc \in {"returned", "done"}
       => UNCHANGED <<opLog, retryLog, delayLog, waitLog, recLog, timers,
                      minDelayCalls, loopErr>>
    /\ pc = "done" => UNCHANGED <<pc, ret>>

\* C18, as stated: every finished invocation has exactly one outcome among
\* success, classified non-retryable, attempts exhausted and cancellation,
\* and nothing is invoked once it is produced.
C18_OneOutcomeOfFour ==
    /\ [](Done => HowMany(<<OutcomeSuccess, OutcomeRejected, OutcomeExhausted,
                            OutcomeCancelled>>) = 1)
    /\ [][NothingAfterOutcome]_vars

\* C18, amended: every finished invocation has exactly one outcome among
\* success, classified non-retryable, attempts exhausted, cancellation and
\* misconfiguration; nothing is returned before the invocation has finished,
\* what is returned is never replaced, and once doRetry has returned no operation
\* invocation, OnRetry call, predicate call, Backoff.Delay call or wait
\* happens.
C18_OneOutcomeOfFive ==
    /\ [](Done => HowMany(<<OutcomeSuccess, OutcomeRejected, OutcomeExhausted,
                            OutcomeCancelled, OutcomeMisconfigured>>) = 1)
    /\ [](~Done => ret = NoRet)
    /\ [][NothingAfterOutcome]_vars

\* the context fired during the second invocation, which then failed with an
\* ordinary error: the run ends at line 525 with that error
C18_Witness ==
    /\ Done /\ OutcomeCancelled
    /\ firedAt = "inOp" /\ opsAtFire = 2
    /\ ret.err = E1
    /\ Len(recLog) = 1

---------------------------------------------------------------------------
(* Properties of WithTimeout, checked under Spec                           *)

\* the latest invocation ran past its own per-attempt timeout
Overran == fn = "WithTimeout" /\ Invocations >= 1 /\ tctxAtReturn.own

\* C19: under WithTimeout, when an attempt overruns its per-attempt timeout
\* and fails while the outer context has not fired, the failure is one of
\* that attempt only: its error is fed to the predicate, and when the
\* predicate accepts it the run does not end while attempts remain.
C19_OverrunFailsTheAttemptOnly ==
    (/\ Done /\ Validated /\ NeverFired
     /\ Overran /\ opLog[Invocations].err # NilErr)
    => /\ Len(recLog) = Invocations
       /\ recLog[Len(recLog)] = opLog[Invocations].err
       /\ IsRecoverable(config, opLog[Invocations].err)
          => Invocations = config.MaxAttempts

\* the latest invocation returned timeoutCtx.Err() of a per-attempt context
\* past its deadline
ReturnedAttemptDeadline ==
    /\ fn = "WithTimeout" /\ Validated /\ Invocations >= 1
    /\ tctxAtReturn.err = "DeadlineExceeded"
    /\ opLog[Invocations].err = DeadlineExceeded

---------------------------------------------------------------------------
(* Further properties of BackOff.Delay, checked under SpecBackoff          *)

\* C25: with factor = 0 and 0 <= minDelay <= maxDelay, every call
\* Delay(previous) returns exactly minDelay, for every previous (minDelay
\* included), every jitter and every draw.
C25_ZeroFactorReturnsMinDelay ==
    \A g \in Goroutines :
        (/\ Returned(g)
         /\ b.factor[1] = 0
         /\ 0 <= b.minDelay /\ b.minDelay <= b.maxDelay)
        => ddelay[g] = b.minDelay

\* factor 0 with a positive minDelay and a large jitter: the product is 0 and
\* the floor brings it back to minDelay
C25_Witness ==
    /\ Returned("g1")
    /\ b.factor = <<0, 1>> /\ b.jitter = <<1000, 1>>
    /\ b.minDelay = 2 /\ b.maxDelay = 20
    /\ dprev["g1"] = 9
    /\ ddelay["g1"] = 2

---------------------------------------------------------------------------
(* Further properties of Do / DoWithValue / WithTimeout, checked under Spec *)

\* the default rule as the specification words it
RetriedByDefault(e) ==
    /\ e # NilErr
    /\ ~Is(e, Canceled) /\ ~Is(e, DeadlineExceeded)
    /\ ~IsUnrecoverableError(e)

\* the i-th error fed to the predicate was rejected: the run ended on it
RejectedAt(i) ==
    /\ i = Len(recLog) /\ Len(recLog) = Invocations
    /\ pc \in {"returned", "done"}
    /\ loopErr = recLog[i]

C27_InvalidTimeoutReturnsAtOnce ==
    (fn = "WithTimeout" /\ timeout <= 0)
    => /\ pc \in {"withTimeout", "done"}
       /\ opLog = <<>> /\ minDelayCalls = 0 /\ delayLog = <<>>
       /\ recLog = <<>> /\ retryLog = <<>> /\ waitLog = <<>>
       /\ Done => ret = [val |-> "zero", err |-> ErrTimeoutInvalid]

\* timeout 0, no backoff policy and a cancelled context: the timeout error
\* comes first
C27_Witness ==
    /\ Done
    /\ fn = "WithTimeout" /\ timeout = 0
    /\ callerCfg.Backoff = "nil" /\ ctxAtEntry = "Canceled"
    /\ ret.err = ErrTimeoutInvalid

\* the latest invocation failed and its post-check met a cancellation: the
\* error is a cancellation or deadline error, or the context had fired by
\* then (it fired in the gap before that invocation, during it, or right
\* after it)
PreemptedFailure ==
    /\ Invocations >= 1
    /\ opLog[Invocations].err # NilErr
    /\ \/ Is(opLog[Invocations].err, Canceled)
       \/ Is(opLog[Invocations].err, DeadlineExceeded)
       \/ firedAt = "invoke" /\ opsAtFire = Invocations - 1
       \/ firedAt \in {"inOp", "afterOp"} /\ opsAtFire = Invocations

\* C29: after a failed invocation cancellation preempts the retry policy:
\* when the context has fired by the post-check, or the error is a
\* cancellation or deadline error, the run ends there with that error as
\* doRetry's result, whatever attempts remain and whatever the predicate
\* would say; the predicate is not consulted about it, OnRetry is not called
\* for it, no wait is started and the attempt counter is not advanced.
C29_CancellationPreemptsRetry ==
    PreemptedFailure
    => /\ pc \in {"afterOp", "returned", "done"}
       /\ Len(recLog) = Invocations - 1
       /\ Len(retryLog) <= Invocations - 1
       /\ Len(waitLog) = Invocations - 1
       /\ timers = 0
       /\ attempt = Invocations - 1
       /\ pc \in {"returned", "done"} => loopErr = opLog[Invocations].err

\* a predicate that accepts everything and two attempts left: the context
\* fires during the first invocation, which fails with an ordinary error
C29_Witness ==
    /\ Done /\ PreemptedFailure
    /\ config.IsRecoverable = "always" /\ config.MaxAttempts = 3
    /\ config.OnRetry = "set"
    /\ Invocations = 1 /\ firedAt = "inOp"
    /\ opLog[1].err = E1
    /\ ret.err = E1

\* what error-chain inspection tells a caller about a returned error: is it
\* ErrAllAttemptsFailed, a cancellation, a deadline, unrecoverable, and does
\* it carry the last operation error
ChainInspection(e, last) ==
    <<Is(e, ErrAllAttemptsFailed), Is(e, Canceled), Is(e, DeadlineExceeded),
      IsUnrecoverableError(e), last # NilErr /\ Is(e, last)>>

\* C28: Do and DoWithValue run the same doRetry, so for the same Config,
\* cancellation timing and operation outcomes they reach the same doRetry
\* result after the same calls; from every such result the two entry points
\* return errors that answer error-chain inspection alike, and both return
\* nil together.
C28_DoAndDoWithValueAgree ==
    (pc \in {"returned", "done"} /\ Validated)
    => LET d == DoResult(loopErr, lastErr, result).err
           v == DoWithValueResult(loopErr, lastErr, result).err
       IN /\ (d = NilErr) <=> (v = NilErr)
          /\ ChainInspection(d, lastErr) = ChainInspection(v, lastErr)

\* C24: NewUnrecoverableError(nil) is nil and carries no unrecoverable
\* marker, so an invocation of the operation that returns a value together
\* with NewUnrecoverableError(nil) has no error, is the last invocation, and
\* the run ends as a success that returns that value (nil for Do).
C24_NilCauseIsNoError ==
    /\ NewUnrecoverableError(NilErr) = NilErr
    /\ ~IsUnrecoverableError(NewUnrecoverableError(NilErr))
    /\ \A i \in 1 .. Invocations :
          opLog[i].val = "v1" => opLog[i].err = NilErr /\ i = Invocations
    /\ (Done /\ Invocations >= 1 /\ opLog[Invocations].val = "v1") =>
          /\ OutcomeSuccess
          /\ ret = EntryResult(NilErr, lastErr, "v1")

\* C24 witness: a finished run whose second invocation returned
\* NewUnrecoverableError(nil) after a first failure, and which succeeded
C24_Witness ==
    /\ Done /\ Invocations = 2
    /\ opLog[1].err # NilErr
    /\ opLog[2] = [val |-> "v1", err |-> NewUnrecoverableError(NilErr)]
    /\ ret.err = NilErr

\* the waits that completed by their timer
TimerWaits == {k \in 1 .. Len(waitLog) : waitLog[k].by = "timer"}

\* C30: within one invocation the wait schedule is driven only by the
\* policy. MinDelay() is read once, before the first attempt; the wait before
\* the first retry is MinDelay(); the wait before retry k+1 is the value
\* Delay returned for the wait before retry k; Delay is called once per wait
\* that completed by its timer, with that wait's delay; every wait follows a
\* failed, accepted attempt that was not the final one, so that a run ending
\* in a success, a terminating failure or the final attempt has one wait and
\* one Delay call fewer than invocations.
C30_WaitScheduleFromPolicy ==
    Validated =>
      /\ minDelayCalls = (IF pc \in {"withTimeout", "entry", "doRetry"} THEN 0 ELSE 1)
      /\ (Invocations >= 1 => minDelayCalls = 1)
      /\ (Len(waitLog) >= 1 => waitLog[1].delay = b.minDelay)
      /\ \A k \in 1 .. Len(waitLog) - 1 :
            /\ waitLog[k].by = "timer"
            /\ waitLog[k + 1].delay = delayRets[k]
      /\ Len(delayRets) = Cardinality(TimerWaits)
      /\ Len(delayLog) = Len(delayRets)
      /\ \A k \in 1 .. Len(delayRets) : delayLog[k] = waitLog[k].delay
      /\ (pc \in {"select", "waiting"} =>
            delay = (IF delayRets = <<>> THEN b.minDelay
                     ELSE delayRets[Len(delayRets)]))
      /\ Len(waitLog) <= Invocations
      /\ Len(waitLog) <= EffectiveMax - 1
      /\ \A k \in 1 .. Len(waitLog) : Retryable(opLog[k].err)
      /\ (/\ Done /\ Invocations >= 1
          /\ \/ opLog[Invocations].err = NilErr
             \/ Rejected
             \/ PreemptedFailure
             \/ Invocations = EffectiveMax)
            => /\ Len(waitLog) = Invocations - 1
               /\ Len(delayRets) = Invocations - 1

\* C30 witness: a finished run of three failed attempts and two timer waits,
\* the second wait longer than the first
C30_Witness ==
    /\ Done /\ Validated /\ Exhausted
    /\ Invocations = 3 /\ Len(delayRets) = 2
    /\ waitLog[1].delay = b.minDelay
    /\ waitLog[2].delay = delayRets[1]
    /\ delayRets[1] > b.minDelay

\* C23: for every non-nil error e, NewUnrecoverableError(e) is detected by
\* IsUnrecoverableError and unwraps to e itself; an error built by marking
\* stays detected under any further wrapping layers; an error built by
\* wrapping alone, with no marker in its chain, is not detected.
C23_MarkerSurvivesWrapping ==
    /\ \A e \in Causes :
          /\ IsUnrecoverableError(NewUnrecoverableError(e))
          /\ Unwrap(NewUnrecoverableError(e)) = e
          /\ ~IsUnrecoverableError(e)
    /\ (xmarked <=> IsUnrecoverableError(xerr))
    /\ (xlayers # <<>> /\ xlayers[Len(xlayers)] = "mark") => Unwrap(xerr) = xcause

\* C23 witness: a marked cause under three wrapping layers of different kinds
C23_Witness ==
    /\ Len(xlayers) = 4
    /\ xlayers[1] = "mark"
    /\ {xlayers[2], xlayers[3], xlayers[4]} = Layers
    /\ xerr.tag # "*UnrecoverableError"
    /\ IsUnrecoverableError(xerr)

\* retries scheduled so far: the waits finished and the one in progress
ScheduledRetries == Len(waitLog) + (IF pc \in {"select", "waiting"} THEN 1 ELSE 0)

\* the delay of the k-th scheduled retry
WaitDelay(k) == IF k <= Len(waitLog) THEN waitLog[k].delay ELSE delay

\* what a finished run returns, from what the operation returned, when the
\* context fired, and the Config's attempt limit and predicate: it names
\* neither OnRetry nor a logger
ReferenceReturn ==
    IF Invocations = 0 THEN EntryResult(CtxErr(ctxErr), NilErr, "zero")
    ELSE LET o == opLog[Invocations] IN
         IF o.err = NilErr THEN EntryResult(NilErr, lastErr, o.val)
         ELSE IF PreemptedFailure \/ ~IsRecoverable(config, o.err)
              THEN EntryResult(o.err, o.err, o.val)
         ELSE IF Invocations = config.MaxAttempts
              THEN EntryResult(ErrAllAttemptsFailed, o.err, o.val)
         ELSE EntryResult(CtxErr(ctxErr), o.err, o.val)

\* the observer calls expected of a Config whose caller-supplied observer is
\* present: one per scheduled retry, with its number, error and delay
ObserverCalledPerRetry ==
    /\ Len(retryLog) = ScheduledRetries
    /\ \A k \in 1 .. Len(retryLog) :
          retryLog[k] = <<k, opLog[k].err, WaitDelay(k)>>

\* C26: a Config returned by WithLogging behaves as the original Config plus
\* logging. On each scheduled retry one line is written when the logger is
\* not nil, with the retry's attempt number, error text and delay, and then
\* the original OnRetry, if any, is called once with the same attempt number,
\* error and delay, exactly as the original Config would call it; without a
\* logger no line is written. The number of invocations and what the run
\* returns are those of ReferenceReturn and of the attempt limit, predicate
\* and context, for the original and the returned Config alike.
C26_WithLoggingOnlyAddsLogging ==
    Validated =>
      /\ (config.OnRetry = "WithLogging" =>
            /\ Len(logLog) = (IF config.logger # "nil" THEN ScheduledRetries ELSE 0)
            /\ \A k \in 1 .. Len(logLog) :
                  logLog[k] = [attempt |-> k, err |-> opLog[k].err.text,
                               delay |-> WaitDelay(k),
                               before |-> IF config.originalOnRetry # "nil"
                                          THEN k - 1 ELSE 0]
            /\ IF config.originalOnRetry # "nil" THEN ObserverCalledPerRetry
               ELSE retryLog = <<>>)
      /\ (config.OnRetry = "set" => ObserverCalledPerRetry /\ logLog = <<>>)
      /\ (config.OnRetry = "nil" => retryLog = <<>> /\ logLog = <<>>)
      /\ Invocations <= EffectiveMax
      /\ FirstFailuresRetryable(Invocations - 1)
      /\ (Done =>
            /\ ret = ReferenceReturn
            /\ (Invocations = 0 => ctxErr # "nil")
            /\ (/\ Invocations >= 1 /\ Invocations < EffectiveMax
                /\ Retryable(opLog[Invocations].err) /\ ~PreemptedFailure)
                  => ctxErr # "nil")

\* C26 witness: a finished run under WithLogging with a logger and an
\* original observer: one retry, one line written before the one observer
\* call, same attempt number, error and delay
C26_Witness ==
    /\ Done /\ Validated
    /\ config.OnRetry = "WithLogging"
    /\ config.logger # "nil" /\ config.originalOnRetry # "nil"
    /\ Invocations = 2
    /\ Len(logLog) = 1 /\ Len(retryLog) = 1
    /\ logLog[1].before = 0
    /\ retryLog[1] = <<logLog[1].attempt, opLog[1].err, logLog[1].delay>>

\* the verdict of the predicate the original Config runs with: its own, or
\* the default one validation installs for it
OriginalVerdict(e) ==
    IF callerCfg.originalIsRecoverable = "nil" THEN DefaultRecoverable(e)
    ELSE CallerPredicate(callerCfg.originalIsRecoverable, e)

\* the latest failure was accepted: the run went on to the exhaustion of its
\* attempts rather than ending with that failure
AcceptedLast == Invocations = EffectiveMax /\ loopErr = ErrAllAttemptsFailed

\* C22: under a Config returned by WithTemporaryErrorHandling, with the
\* context never fired, an operation error whose Temporary() answers true is
\* classified recoverable and retried whatever the original predicate says,
\* and an error that is not temporary is retried exactly when the original
\* predicate accepts it.
C22_TemporaryErrorsRetried ==
    (/\ config.IsRecoverable = "WithTemporaryErrorHandling"
     /\ Validated /\ Done /\ NeverFired
     /\ Invocations >= 1 /\ opLog[Invocations].err # NilErr)
    => LET e == opLog[Invocations].err IN
       /\ IsTemporary(e) => AcceptedLast
       /\ ~IsTemporary(e) => (AcceptedLast <=> OriginalVerdict(e))
       /\ \A i \in 1 .. Invocations - 1 :
             IsTemporary(opLog[i].err) \/ OriginalVerdict(opLog[i].err)

----------------------------------------------------------------------------
(* Ordering, waits and termination                                        *)

\* the caller's observer is reached by config.OnRetry
Observed == Validated /\ pc \notin {"withTimeout", "entry"} /\ OnRetryCallsObserver(config)

\* C31: attempts run one at a time, and for every scheduled retry n the
\* order is fixed: the n-th failed invocation has returned when OnRetry is
\* called for it, the call is made before the wait starts, and the next
\* invocation begins only when the wait has completed by its timer. Stated
\* by position: while the operation runs, every earlier wait has completed
\* and every earlier retry was reported; when OnRetry is about to be called
\* for retry n, n invocations have returned, the n-th failed, and n-1 waits
\* and n-1 calls were made; during and after wait n exactly n calls were
\* made, the n-th for the n-th failure, so no call is made during or after
\* the wait it announces.
C31_FixedOrderPerRetry ==
    Validated =>
      /\ Begun - Invocations \in {0, 1}
      /\ timers <= 1
      /\ (pc \in {"invoke", "inOp"} =>
            /\ Invocations = attempt
            /\ Len(waitLog) = attempt
            /\ \A k \in 1 .. Len(waitLog) : waitLog[k].by = "timer"
            /\ (Observed => Len(retryLog) = attempt))
      /\ (pc = "onRetry" =>
            /\ Invocations = attempt /\ opLog[attempt].err # NilErr
            /\ Len(waitLog) = attempt - 1
            /\ (Observed => Len(retryLog) = attempt - 1))
      /\ (pc \in {"select", "waiting"} =>
            /\ Invocations = attempt
            /\ Len(waitLog) = attempt - 1
            /\ (Observed => /\ Len(retryLog) = attempt
                            /\ retryLog[attempt] = <<attempt, opLog[attempt].err, delay>>))
      /\ (Observed => /\ Len(retryLog) <= Invocations
                      /\ Len(waitLog) <= Len(retryLog)
                      /\ Len(retryLog) <= Len(waitLog) + 1
                      /\ (Len(retryLog) = Len(waitLog) + 1 => pc \in {"select", "waiting"}))

\* C31 witness: the third invocation is running after two reported retries
\* and two completed waits
C31_Witness ==
    /\ Validated /\ Observed /\ pc = "inOp"
    /\ Invocations = 2 /\ Len(retryLog) = 2 /\ Len(waitLog) = 2

\* C32: the k-th OnRetry call receives the attempt number k, the error the
\* k-th invocation of the operation returned, and the delay of the wait that
\* follows it: MinDelay() for the first, the value the previous Delay call
\* returned for the others. The Delay call made after that wait takes this
\* delay as its argument; its result is not what the observer saw.
C32_OnRetryArguments ==
    Observed =>
      \A k \in 1 .. Len(retryLog) :
        /\ retryLog[k][1] = k
        /\ k <= Invocations /\ retryLog[k][2] = opLog[k].err
        /\ retryLog[k][3] = WaitDelay(k)
        /\ retryLog[k][3] = (IF k = 1 THEN b.minDelay ELSE delayRets[k - 1])
        /\ (k <= Len(delayLog) => delayLog[k] = retryLog[k][3])

\* C32 witness: two calls with different errors; the second received the
\* result of the first Delay call, which differs from the first delay and
\* from the result of the second Delay call
C32_Witness ==
    /\ Observed /\ Len(retryLog) = 2 /\ Len(delayRets) = 2
    /\ retryLog[1] = <<1, opLog[1].err, b.minDelay>>
    /\ retryLog[2] = <<2, opLog[2].err, delayRets[1]>>
    /\ opLog[1].err # opLog[2].err
    /\ delayRets[1] # b.minDelay /\ delayRets[2] # delayRets[1]

\* the goroutines between Lock and Unlock
InDraw == {g \in Goroutines : dpc[g] \in {"draw", "unlock"}}

\* C33: Delay holds b.mu around the random draw only. At most one goroutine
\* is between Lock and Unlock, and it is the holder; a goroutine in the
\* growth, the jitter arithmetic and clamp, or back in its caller holds
\* nothing, so nothing is held when Delay has returned; and whenever a
\* goroutine waits for the mutex its holder is at the draw or the Unlock,
\* which need nothing to proceed: no state is a deadlock.
C33_MutexAroundDrawOnly ==
    /\ Cardinality(InDraw) <= 1
    /\ \A g \in Goroutines : (mu = g <=> g \in InDraw)
    /\ mu \in Goroutines \cup {"free"}
    /\ \A g \in Goroutines :
          dpc[g] \in {"idle", "lock", "jitter", "ret"} => mu # g
    /\ (\E g \in Goroutines : dpc[g] = "lock") =>
          (mu = "free" \/ \E h \in Goroutines : mu = h /\ dpc[h] \in {"draw", "unlock"})

\* C33 witness: one goroutine does its jitter arithmetic with the mutex
\* released while the other is inside the draw
C33_Witness ==
    \E g, h \in Goroutines :
       /\ dpc[g] = "jitter" /\ dpc[h] = "draw" /\ mu = h

\* the latest wait was ended by the context
CancelledInWait == waitLog # <<>> /\ waitLog[Len(waitLog)].by = "ctx"

\* C34: when the executor has returned, by success, non-recoverable error,
\* exhaustion or cancellation, no timer it started is still pending.
C34_NoTimerPendingAtReturn ==
    pc \in {"returned", "done"} => timers = 0

\* C35: the wait is a cancellable sleep. A wait is left only by its timer
\* firing or by the context having fired, and with nothing else changed; a
\* wait ended by the context ends the run with the context's error; and
\* when the context has fired while the executor waits, the run ends in
\* cancellation whether or not the timer ever fires.
C35_CancellableSleep ==
    /\ [](\A k \in 1 .. Len(waitLog) :
            waitLog[k].by = "ctx" =>
              /\ k = Len(waitLog) /\ ctxErr # "nil"
              /\ pc \in {"returned", "done"} /\ loopErr = CtxErr(ctxErr))
    /\ [][(pc = "waiting" /\ pc' # "waiting") =>
            /\ Len(waitLog') = Len(waitLog) + 1
            /\ LET w == waitLog'[Len(waitLog')] IN
                 \/ w.by = "timer" /\ timers' = timers - 1 /\ pc' = "loop"
                 \/ w.by = "ctx" /\ ctxErr # "nil" /\ pc' = "returned"]_vars
    /\ ((pc = "waiting" /\ ctxErr # "nil") ~> (Done /\ OutcomeCancelled))

\* C35 witness: a finished run whose wait was ended by the context while its
\* timer had not fired
C35_Witness ==
    /\ Done /\ Validated /\ CancelledInWait
    /\ firedAt = "waiting" /\ OutcomeCancelled

\* C36: every invocation terminates, given that each invocation of the
\* operation returns and each wait ends: it reaches the returned state and
\* stays there, having made at most MaxAttempts invocations (1 for
\* MaxAttempts 0) and at most one wait fewer, whatever the operation
\* returned.
C36_Terminates ==
    /\ <>[]Done
    /\ [](/\ Begun <= EffectiveMax
          /\ Len(waitLog) + (IF pc \in {"select", "waiting"} THEN 1 ELSE 0)
                <= EffectiveMax - 1)

\* C36 witness: a finished run that used every attempt and every wait
C36_Witness ==
    /\ Done /\ Validated /\ callerCfg.MaxAttempts = 2
    /\ Invocations = 2 /\ Len(waitLog) = 1 /\ Exhausted

\* C37: a finished run whose returned error is identified as
\* ErrAllAttemptsFailed made exactly MaxAttempts invocations, each of which
\* failed, passed the check after the attempt and was accepted by the
\* predicate; a last permitted attempt that is rejected or preempted never
\* yields it.
C37_ExhaustionOnlyAfterAllAttempts ==
    (Done /\ Validated /\ Is(ret.err, ErrAllAttemptsFailed))
    => /\ Invocations = EffectiveMax
       /\ Len(recLog) = Invocations
       /\ \A i \in 1 .. Invocations :
             /\ opLog[i].err # NilErr
             /\ recLog[i] = opLog[i].err
             /\ IsRecoverable(config, recLog[i])

\* the callee is past validateConfig
PastValidation == pc \notin {"withTimeout", "entry"}

\* C38: the entry points and the enhancers leave the caller's Config value
\* as it is. An enhancer returns a new value and leaves the one it was
\* given; no step of an invocation changes the value passed to it; every
\* invocation, the first and a later one with the same value, starts from a
\* copy equal to it; the coercion of
\* MaxAttempts 0 to 1 and the default predicate are found in the copy only;
\* a Config returned by an enhancer keeps its replaced callback and what the
\* callback captured; and every invocation returns what ReferenceReturn
\* gives for its own course.
C38_CallerConfigUnchanged ==
    /\ [][/\ baseCfg' = baseCfg
          /\ callerCfg' # callerCfg =>
               /\ callerCfg = baseCfg /\ runs = 1 /\ ~PastValidation
               /\ callerCfg' \in {WithLogging(baseCfg, "set"),
                                  WithTemporaryErrorHandling(baseCfg)}]_vars
    /\ [](/\ ~PastValidation => config = callerCfg
          /\ (PastValidation /\ Validated) => config = ValidateConfig(callerCfg)
          /\ callerCfg \in ReuseConfigs
          /\ (Done /\ Validated) => ret = ReferenceReturn)

\* C38 witness: the second invocation with the Config an enhancer returned
\* for a Config of MaxAttempts 0 and no predicate has finished; the copy was
\* coerced, the value passed and the value given to the enhancer were not
C38_Witness ==
    /\ runs = 2 /\ Done /\ Validated
    /\ callerCfg = WithTemporaryErrorHandling(baseCfg)
    /\ callerCfg.MaxAttempts = 0 /\ config.MaxAttempts = 1
    /\ baseCfg.IsRecoverable = "nil" /\ baseCfg.MaxAttempts = 0
    /\ Invocations = 1

\* the Config runs with the default predicate, or with the predicate that
\* WithTemporaryErrorHandling builds over no original predicate
DefaultOrEnhancedDefault ==
    \/ config.IsRecoverable = "default"
    \/ /\ config.IsRecoverable = "WithTemporaryErrorHandling"
       /\ config.originalIsRecoverable = "nil"

\* what a finished run returns under the default predicate: ReferenceReturn
\* with defaultRecoverable as the predicate
DefaultReturn ==
    IF Invocations = 0 THEN EntryResult(CtxErr(ctxErr), NilErr, "zero")
    ELSE LET o == opLog[Invocations] IN
         IF o.err = NilErr THEN EntryResult(NilErr, lastErr, o.val)
         ELSE IF PreemptedFailure \/ ~DefaultRecoverable(o.err)
              THEN EntryResult(o.err, o.err, o.val)
         ELSE IF Invocations = config.MaxAttempts
              THEN EntryResult(ErrAllAttemptsFailed, o.err, o.val)
         ELSE EntryResult(CtxErr(ctxErr), o.err, o.val)

\* C39: with no original predicate, WithTemporaryErrorHandling does not
\* change how non-temporary errors are treated. Under the default predicate
\* and under the enhanced one alike: every non-temporary error that was
\* followed by a further attempt is one the default predicate accepts, the
\* predicate's verdict on every non-temporary error it is fed is the default
\* predicate's, and a run that ends on a success, on a non-temporary error
\* or with no invocation returns what the default predicate makes it return,
\* whenever the context fired.
C39_EnhancedDefaultTreatsOthersAlike ==
    (Validated /\ PastValidation /\ DefaultOrEnhancedDefault) =>
      /\ \A i \in 1 .. Invocations - 1 :
            ~IsTemporary(opLog[i].err) => DefaultRecoverable(opLog[i].err)
      /\ \A i \in 1 .. Len(recLog) :
            ~IsTemporary(recLog[i]) =>
               (IsRecoverable(config, recLog[i]) <=> DefaultRecoverable(recLog[i]))
      /\ (Done /\ (Invocations = 0 \/ ~IsTemporary(opLog[Invocations].err)))
            => ret = DefaultReturn

\* C39 witness: under the enhanced Config, with the context never fired, a
\* first error was retried and a second, non-temporary error with a
\* cancellation in its chain, which the closure alone would accept and the
\* default predicate rejects, ended the run as it does by default
C39_Witness ==
    /\ Done /\ Validated /\ NeverFired
    /\ config.IsRecoverable = "WithTemporaryErrorHandling"
    /\ config.originalIsRecoverable = "nil"
    /\ Invocations = 2
    /\ opLog[1].err = E1 /\ opLog[2].err = Wrapf(Canceled)
    /\ IsRecoverable(config, opLog[2].err) /\ ~DefaultRecoverable(opLog[2].err)
    /\ ret.err = Wrapf(Canceled)

---------------------------------------------------------------------------
(* The generated retry decorator                                           *)

\* the method call has returned
MethodDone == mpc = "done"

\* C40: a call of an error-returning method of the generated decorator
\* calls the underlying method at most maxAttempts times before it returns
\* ErrAllAttemptsFailed, and never calls it again once the context was
\* cancelled during a wait.
C40_AtMostMaxAttemptsCalls ==
    /\ (MethodDone /\ mRet = ErrAllAttemptsFailed) => calls <= deco.maxAttempts
    /\ mFiredAt = "select" => calls <= callsAtFire

====
